---- MODULE Spec2Model ----
(***************************************************************************)
(* go-priam: backup and restore of a Cassandra keyspace to AWS S3.         *)
(*                                                                         *)
(* The module models                                                       *)
(*   - the snapshot history index (SnapshotHistory: Add, List, Keys,       *)
(*     Valid, Parent),                                                     *)
(*   - the key codec (S3.getFileKey, with Go's path.Clean / path.Split     *)
(*     and strings.Split computed character by character),                 *)
(*   - the Backup command of one go-priam process after another against    *)
(*     one S3 bucket (Spec),                                               *)
(*   - the Restore command of one go-priam process after another against   *)
(*     a bucket that backups filled (SpecRestore),                         *)
(*   - one go-priam process of any command, from its command line to its   *)
(*     exit status (SpecMain),                                             *)
(*   - one Prium object whose Backup, Restore and History are called one   *)
(*     after another (SpecObject),                                         *)
(*   - the ssh connection cache of the Agent, used by one goroutine        *)
(*     (SpecAgent) and by two (SpecAgentPar),                              *)
(*   - the pipe of UploadFiles between the goroutine that compresses a     *)
(*     file and the upload that reads it (SpecPipe).                       *)
(*                                                                         *)
(* Strings are TLA+ strings; Go's byte-wise string order is StrLess.       *)
(***************************************************************************)
EXTENDS Integers, Sequences, FiniteSets, TLC

VARIABLES
    hist,       \* SnapshotHistory: [parent: map, keys: map]  (p.hist when ~histNil)
    histNil,    \* p.hist == nil
    added,      \* history of the keys passed to Add on hist, in call order
    crashed,    \* the process died of a Go runtime panic
    enc,        \* codec inputs: [base, keyspace, parent, timestamp, host, file, incremental]
    encKey,     \* the key getFileKey produced for enc ("" before the call)
    pc,         \* position of the running command ("exit": no process running)
    config,     \* *Config shared by Prium, Cassandra and S3: [Incremental, Keyspace, AwsBasePath]
    requested,  \* the -incremental flag as given on the command line of this run
    hosts,      \* result of cassandra.Hosts() in this run
    timestamp,  \* Backup: timestamp
    parent,     \* Backup: parent
    hostIdx,    \* Backup: position of the host loop (1-based)
    files,      \* Backup: files returned by Snapshot for the current host
    dirs,       \* Backup: dirs returned by Snapshot for the current host
    fileIdx,    \* UploadFiles: position of the file loop (1-based)
    oplog,      \* commands issued to cluster hosts and to S3 in this run, in order
    store,      \* object keys held by the S3 bucket
    err,        \* error returned by the command of the last run ("nil": none)
    runs,       \* number of go-priam processes started so far
    rmFailed,   \* deleteSnapshot: <<host, dir>> of the rm -rf commands of the last call that failed
    rsnapshot,  \* Restore: snapshot, the timestamp restored to
    rkeys,      \* Restore: keys returned by hist.Keys(snapshot)
    keyIdx,     \* downloadKeys: position of the key loop (1-based)
    staged,     \* downloadKeys: files, local file name by key
    sent,       \* uploadFilesToHost: keys the range over files has passed
    rdirs,      \* uploadFilesToHost: dirs, the set of remote directories
    lhosts,     \* sstableload: hosts
    ldone,      \* sstableload: directories the range over dirs has passed
    ldir,       \* sstableload: dir of the current pass ("" between passes)
    lidx,       \* sstableload: position of the host loop (1-based)
    loads,      \* sstableloader runs of this process: [target, node, dir, ok]
    clients,    \* Agent: clients, the ssh client cached for a host
    dials,      \* connections ssh.Dial has established, counted by host
    gor,        \* goroutines calling the Agent: [pc, op, host, conn, hit, raced, err]
    calls,      \* number of Agent operations called so far
    fatal,      \* the Go runtime has stopped the process with a fatal error
    streams,    \* UploadFiles: blocks the gzip stream of each file is written in
    upIdx,      \* UploadFiles: position of the file loop of the pipe model (1-based)
    producer,   \* the compressing goroutine of each file: [pc, left, cut]
    upload,     \* UploadFiles and uploader.Upload: "idle", "reading", "failed", "done"
    taken       \* blocks uploader.Upload has read from the pipe of each file

histVars  == <<hist, histNil, added, crashed>>
codecVars == <<enc, encKey>>
restoreVars == <<rsnapshot, rkeys, keyIdx, staged, sent, rdirs, lhosts, ldone,
                 ldir, lidx, loads>>
agentVars == <<clients, dials, gor, calls, fatal>>
pipeVars  == <<streams, upIdx, producer, upload, taken>>
progVars  == <<pc, config, requested, hosts, timestamp, parent, hostIdx, files,
               dirs, fileIdx, oplog, store, err, runs, rmFailed, restoreVars>>
vars      == <<histVars, codecVars, progVars, agentVars, pipeVars>>

----------------------------------------------------------------------------
(* Bounds *)

MaxAdds == 3    \* Add calls in the index specification
MaxRuns == 2    \* go-priam processes run one after another

----------------------------------------------------------------------------
(* Go strings *)

Char(s, i) == SubSeq(s, i, i)

\* the characters used, in byte order
Alphabet == "-./0123456789:ABCDEFGHIJKLMNOPQRSTUVWXYZ_abcdefghijklmnopqrstuvwxyz"

Ord(c) == CHOOSE i \in 1..Len(Alphabet) : Char(Alphabet, i) = c

RECURSIVE StrLessFrom(_, _, _)
StrLessFrom(a, b, i) ==
    IF i > Len(b) THEN FALSE
    ELSE IF i > Len(a) THEN TRUE
    ELSE IF Char(a, i) = Char(b, i) THEN StrLessFrom(a, b, i + 1)
    ELSE Ord(Char(a, i)) < Ord(Char(b, i))

\* a < b on Go strings
StrLess(a, b) == StrLessFrom(a, b, 1)

RECURSIVE SplitFrom(_, _, _, _)
SplitFrom(s, sep, i, cur) ==
    IF i > Len(s) THEN <<cur>>
    ELSE IF Char(s, i) = sep THEN <<cur>> \o SplitFrom(s, sep, i + 1, "")
    ELSE SplitFrom(s, sep, i + 1, cur \o Char(s, i))

\* strings.Split(s, sep) for a one-character separator
Split(s, sep) == SplitFrom(s, sep, 1, "")

RECURSIVE Join(_, _)
Join(elems, sep) ==
    IF Len(elems) = 0 THEN ""
    ELSE IF Len(elems) = 1 THEN elems[1]
    ELSE elems[1] \o sep \o Join(Tail(elems), sep)

HasPrefix(s, prefix) ==
    Len(s) >= Len(prefix) /\ SubSeq(s, 1, Len(prefix)) = prefix

HasSuffix(s, suffix) ==
    Len(s) >= Len(suffix) /\ SubSeq(s, Len(s) - Len(suffix) + 1, Len(s)) = suffix

RECURSIVE Insert(_, _)
Insert(sorted, s) ==
    IF Len(sorted) = 0 THEN <<s>>
    ELSE IF StrLess(s, Head(sorted)) THEN <<s>> \o sorted
    ELSE <<Head(sorted)>> \o Insert(Tail(sorted), s)

RECURSIVE SortStrings(_)
SortStrings(strs) ==
    IF Len(strs) = 0 THEN <<>>
    ELSE Insert(SortStrings(Tail(strs)), Head(strs))

\* the elements of a Go map's key set in some iteration order
RECURSIVE Range(_)
Range(S) ==
    IF S = {} THEN <<>>
    ELSE LET x == CHOOSE y \in S : TRUE IN <<x>> \o Range(S \ {x})

----------------------------------------------------------------------------
(* Go package path *)

RECURSIVE CleanElems(_, _, _, _)
CleanElems(elems, i, rooted, out) ==
    IF i > Len(elems) THEN out
    ELSE LET e == elems[i] IN
         IF e = "" \/ e = "." THEN CleanElems(elems, i + 1, rooted, out)
         ELSE IF e = ".." THEN
              IF Len(out) > 0 /\ out[Len(out)] # ".."
              THEN CleanElems(elems, i + 1, rooted, SubSeq(out, 1, Len(out) - 1))
              ELSE IF rooted THEN CleanElems(elems, i + 1, rooted, out)
              ELSE CleanElems(elems, i + 1, rooted, Append(out, ".."))
         ELSE CleanElems(elems, i + 1, rooted, Append(out, e))

\* path.Clean
Clean(p) ==
    IF p = "" THEN "."
    ELSE LET rooted == Char(p, 1) = "/"
             body   == Join(CleanElems(Split(p, "/"), 1, rooted, <<>>), "/")
         IN  IF rooted THEN "/" \o body
             ELSE IF body = "" THEN "." ELSE body

RECURSIVE LastSlash(_, _)
LastSlash(p, i) ==
    IF i = 0 THEN 0
    ELSE IF Char(p, i) = "/" THEN i
    ELSE LastSlash(p, i - 1)

\* path.Split: <<dir, file>>
PathSplit(p) ==
    LET i == LastSlash(p, Len(p))
    IN  <<SubSeq(p, 1, i), SubSeq(p, i + 1, Len(p))>>

----------------------------------------------------------------------------
(* SnapshotHistory *)

EmptyMap == [k \in {} |-> k]

MapPut(m, k, v) == [x \in DOMAIN m \cup {k} |-> IF x = k THEN v ELSE m[x]]

NewSnapshotHistory == [parent |-> EmptyMap, keys |-> EmptyMap]

\* Add indexes parts[2] and parts[3] of strings.Split(key, "/") (0-based);
\* with fewer than four parts the index expression panics.
AddPanics(key) == Len(Split(key, "/")) < 4

KeyParent(key) == Split(key, "/")[3]

KeyTimestamp(key) == Split(key, "/")[4]

\* Add that records a key of a snapshot once, however often it is added
Add_OncePerKey(h, key) ==
    LET p  == KeyParent(key)
        ts == KeyTimestamp(key)
        h1 == IF p # ts THEN [h EXCEPT !.parent = MapPut(h.parent, ts, p)] ELSE h
        ks == IF ts \in DOMAIN h1.keys THEN h1.keys[ts] ELSE <<>>
    IN  [h1 EXCEPT !.keys = MapPut(h1.keys, ts,
            IF \E i \in DOMAIN ks : ks[i] = key THEN ks ELSE ks \o <<key>>)]

\* Add that records the parent of every key, a root's own id included
Add_RecordsRootParent(h, key) ==
    LET p  == KeyParent(key)
        ts == KeyTimestamp(key)
        h1 == [h EXCEPT !.parent = MapPut(h.parent, ts, p)]
    IN  [h1 EXCEPT !.keys = MapPut(h1.keys, ts,
            (IF ts \in DOMAIN h1.keys THEN h1.keys[ts] ELSE <<>>) \o <<key>>)]

Add(h, key) ==
    LET p  == KeyParent(key)
        ts == KeyTimestamp(key)
        h1 == IF p # ts THEN [h EXCEPT !.parent = MapPut(h.parent, ts, p)] ELSE h
    IN  [h1 EXCEPT !.keys = MapPut(h1.keys, ts,
            (IF ts \in DOMAIN h1.keys THEN h1.keys[ts] ELSE <<>>) \o <<key>>)]

RECURSIVE Reverse(_)
Reverse(strs) ==
    IF Len(strs) = 0 THEN <<>> ELSE Append(Reverse(Tail(strs)), Head(strs))

\* List without sort.Strings: the ids in an order that is not ascending
List_Unsorted(h) == Reverse(SortStrings(Range(DOMAIN h.keys)))

List(h) == SortStrings(Range(DOMAIN h.keys))

ErrNil == "nil"
ErrNotFound == "did not find snapshot"
Diverges == "diverges"     \* the loop of Keys never returns

RECURSIVE KeysLoop(_, _, _, _)
KeysLoop(h, snapshot, keys, visited) ==
    IF snapshot \notin DOMAIN h.keys
    THEN [keys |-> <<>>, err |-> ErrNotFound]
    ELSE LET keys2 == keys \o h.keys[snapshot] IN
         IF snapshot \notin DOMAIN h.parent
         THEN [keys |-> keys2, err |-> ErrNil]
         ELSE IF h.parent[snapshot] \in visited \cup {snapshot}
         THEN [keys |-> <<>>, err |-> Diverges]
         ELSE KeysLoop(h, h.parent[snapshot], keys2, visited \cup {snapshot})

\* Keys that does not follow the parent map
Keys_OwnLayerOnly(h, snapshot) ==
    IF snapshot \notin DOMAIN h.keys
    THEN [keys |-> <<>>, err |-> ErrNotFound]
    ELSE [keys |-> h.keys[snapshot], err |-> ErrNil]

RECURSIVE KeysLoop_Truncating(_, _, _, _)
KeysLoop_Truncating(h, snapshot, keys, visited) ==
    IF snapshot \notin DOMAIN h.keys
    THEN [keys |-> keys, err |-> ErrNil]
    ELSE LET keys2 == keys \o h.keys[snapshot] IN
         IF snapshot \notin DOMAIN h.parent
         THEN [keys |-> keys2, err |-> ErrNil]
         ELSE IF h.parent[snapshot] \in visited \cup {snapshot}
         THEN [keys |-> <<>>, err |-> Diverges]
         ELSE KeysLoop_Truncating(h, h.parent[snapshot], keys2, visited \cup {snapshot})

\* Keys that breaks out of the loop at a missing snapshot instead of failing
Keys_Truncating(h, snapshot) == KeysLoop_Truncating(h, snapshot, <<>>, {})

\* Keys with the keys of the root first and those of the snapshot last
Keys_RootFirst(h, snapshot) ==
    LET r == KeysLoop(h, snapshot, <<>>, {})
    IN  [keys |-> Reverse(r.keys), err |-> r.err]

Keys(h, snapshot) == KeysLoop(h, snapshot, <<>>, {})

\* Valid that looks the snapshot up in the parent map
Valid_InParent(h, snapshot) == snapshot \in DOMAIN h.parent

Valid(h, snapshot) == snapshot \in DOMAIN h.keys

\* Parent that returns the zero value for a snapshot without parent
Parent_ZeroValue(h, snapshot) ==
    IF snapshot \in DOMAIN h.parent THEN h.parent[snapshot] ELSE ""

Parent(h, snapshot) ==
    IF snapshot \in DOMAIN h.parent THEN h.parent[snapshot] ELSE snapshot

----------------------------------------------------------------------------
(* Key codec *)

\* getFileKey that removes two segments of the directory for every backup
getFileKey_FullOnly(cfg, par, ts, host, file) ==
    LET s1   == PathSplit(Clean(file))
        dir1 == s1[1]
        base == s1[2]
        dir2 == PathSplit(Clean(dir1))[1]
        dir3 == PathSplit(Clean(dir2))[1]
    IN  "/" \o cfg.AwsBasePath \o "/" \o cfg.Keyspace \o "/" \o par \o "/" \o ts
            \o "/" \o host \o dir3 \o base \o ".gz"

\* S3.getFileKey; cfg is s.config
getFileKey(cfg, par, ts, host, file) ==
    LET s1   == PathSplit(Clean(file))
        dir1 == s1[1]
        base == s1[2]
        dir2 == PathSplit(Clean(dir1))[1]
        dir3 == IF ~cfg.Incremental THEN PathSplit(Clean(dir2))[1] ELSE dir2
    IN  "/" \o cfg.AwsBasePath \o "/" \o cfg.Keyspace \o "/" \o par \o "/" \o ts
            \o "/" \o host \o dir3 \o base \o ".gz"

----------------------------------------------------------------------------
(* State of a host on which no go-priam process has run yet *)

DefaultConfig ==
    [Incremental |-> FALSE, Keyspace |-> "ks", AwsBasePath |-> "env",
     Snapshot |-> "", TempDir |-> "/tmp"]

NoEnc == [base |-> "", keyspace |-> "", parent |-> "", timestamp |-> "",
          host |-> "", file |-> "", incremental |-> FALSE]

\* no operation of the program is running, its configuration is cfg
Idle(cfg) ==
    /\ pc = "exit"
    /\ config = cfg
    /\ requested = FALSE
    /\ hosts = <<>>
    /\ timestamp = ""
    /\ parent = ""
    /\ hostIdx = 0
    /\ files = <<>>
    /\ dirs = <<>>
    /\ fileIdx = 0
    /\ oplog = <<>>
    /\ err = ErrNil
    /\ runs = 0
    /\ rmFailed = {}
    /\ rsnapshot = ""
    /\ rkeys = <<>>
    /\ keyIdx = 0
    /\ staged = EmptyMap
    /\ sent = {}
    /\ rdirs = {}
    /\ lhosts = <<>>
    /\ ldone = {}
    /\ ldir = ""
    /\ lidx = 0
    /\ loads = <<>>

NoProcess == Idle(DefaultConfig)

ProgIdle == NoProcess /\ store = {}

\* goroutines that may call the Agent
Goroutines == {1, 2}

\* host arguments of the Agent operations
AgentHosts == {"", "hostA", "hostB"}

\* a goroutine that is not inside an Agent operation
GoIdle(e) == [pc |-> "idle", op |-> "", host |-> "", conn |-> 0, hit |-> FALSE,
              raced |-> FALSE, err |-> e]

\* NewAgent: an empty clients map, no operation called
AgentIdle ==
    /\ clients = EmptyMap
    /\ dials = [h \in AgentHosts |-> 0]
    /\ gor = [g \in Goroutines |-> GoIdle(ErrNil)]
    /\ calls = 0
    /\ fatal = FALSE

\* no UploadFiles of the pipe model is running
PipeIdle ==
    /\ streams = <<>>
    /\ upIdx = 0
    /\ producer = <<>>
    /\ upload = "idle"
    /\ taken = <<>>

HistEmpty ==
    /\ hist = NewSnapshotHistory
    /\ histNil = FALSE
    /\ added = <<>>
    /\ crashed = FALSE

----------------------------------------------------------------------------
(* SpecHist: any sequence of Add calls on one SnapshotHistory *)

HistKeys ==
    { "/env/ks/t1/t1/hostA/cf/snap/f1.gz",   \* keys as getFileKey writes them
      "/env/ks/t1/t2/hostA/cf/f2.gz",
      "env/ks/t1/t1/hostA/cf/f1.gz",         \* keys as the bucket lists them
      "env/ks/t1/t2/hostA/cf/f2.gz",
      "env/ks/t2/t3/hostA/cf/f3.gz",
      "env/ks/t0/t4/hostA/cf/f4.gz",         \* its parent t0 has no key
      "env/ks/t3/t1/hostA/cf/f5.gz",         \* t1 as a child of t3
      "env/ks/t1" }                          \* too short to decode

\* every snapshot id a key of HistKeys can decode to, and one that none does
HistIds ==
    UNION { {KeyParent(k), KeyTimestamp(k)} : k \in {x \in HistKeys : ~AddPanics(x)} }
        \cup {"t9"}

HistInit ==
    /\ AgentIdle
    /\ PipeIdle
    /\ HistEmpty
    /\ enc = NoEnc
    /\ encKey = ""
    /\ ProgIdle

\* h.Add(key)
CallAdd(key) ==
    /\ ~crashed
    /\ Len(added) < MaxAdds
    /\ IF AddPanics(key)
       THEN /\ crashed' = TRUE
            /\ UNCHANGED <<hist, added>>
       ELSE /\ hist' = Add(hist, key)
            /\ added' = Append(added, key)
            /\ UNCHANGED crashed
    /\ UNCHANGED <<agentVars, pipeVars, histNil, codecVars, progVars>>

HistNext == \E key \in HistKeys : CallAdd(key)

SpecHist == HistInit /\ [][HistNext]_vars

----------------------------------------------------------------------------
(* SpecCodec: one key encoded by getFileKey and decoded by Add *)

Ids == {"t1", "t2", "t3"}

CodecFiles == {"/d/ks/cf/snapshots/t1/f1", "/d/ks/cf/backups/f2", "f3"}

EncInputs ==
    [base : {"env", "a/b"}, keyspace : {"ks"}, parent : Ids, timestamp : Ids,
     host : {"hostA", "hostB"}, file : CodecFiles, incremental : BOOLEAN]

CodecInit ==
    /\ AgentIdle
    /\ PipeIdle
    /\ enc \in EncInputs
    /\ encKey = ""
    /\ HistEmpty
    /\ ProgIdle

CodecEncode ==
    /\ encKey = ""
    /\ encKey' = getFileKey([Incremental |-> enc.incremental,
                             Keyspace |-> enc.keyspace,
                             AwsBasePath |-> enc.base],
                            enc.parent, enc.timestamp, enc.host, enc.file)
    /\ UNCHANGED <<agentVars, pipeVars, enc, histVars, progVars>>

CodecDecode ==
    /\ encKey # ""
    /\ added = <<>>
    /\ ~crashed
    /\ IF AddPanics(encKey)
       THEN /\ crashed' = TRUE
            /\ UNCHANGED <<hist, added>>
       ELSE /\ hist' = Add(hist, encKey)
            /\ added' = <<encKey>>
            /\ UNCHANGED crashed
    /\ UNCHANGED <<agentVars, pipeVars, histNil, codecVars, progVars>>

CodecNext == CodecEncode \/ CodecDecode

SpecCodec == CodecInit /\ [][CodecNext]_vars

----------------------------------------------------------------------------
(* Spec: go-priam processes run one after another, each one command, against  *)
(* one cluster and one S3 bucket                                              *)

\* results of `nodetool status` parsed by Cassandra.Hosts
HostLists == {<<>>, <<"hostA">>, <<"hostA", "hostB">>}

\* values of time.Now() formatted by NewTimestamp; the wall clock may repeat a
\* second or step back between two processes
Timestamps == Ids

\* the table directory found under <data dir>/<keyspace>/ on every host
TableDir == "/d/ks/cf"

\* file names `find` lists in a snapshot or backups directory
FileLists == {<<>>, <<"f1">>, <<"f1", "f2">>}

ErrNoHosts      == "unable to get any cassandra hosts"
ErrHistory      == "error getting snapshot history"
ErrNonMonotonic == "new timestamp less than last"
ErrSnapshot(host) == "snapshot @ " \o host
ErrUpload(host)   == "upload @ " \o host
ErrExit           == "os.Exit(1)"
ErrPanic          == "panic"

Op(op, host, arg, key) == [op |-> op, host |-> host, arg |-> arg, key |-> key]

NonEmpty(s) == s # ""

\* the key under which the bucket holds an object put with Key: key. The SDK
\* cleans the request path /<bucket>/<key> of empty segments, so the leading
\* slash getFileKey writes is not part of the object key (S3.SnapshotHistory
\* lists with the prefix <base path>/<keyspace>, without it).
ObjectKey(key) == Join(SelectSeq(Split(key, "/"), NonEmpty), "/")

\* ListObjectsV2 with Prefix, all pages: the matching keys in byte order
ListObjects(cfg) ==
    LET prefix == cfg.AwsBasePath \o "/" \o cfg.Keyspace
    IN  SortStrings(Range({k \in store : HasPrefix(k, prefix)}))

RECURSIVE AddAll(_, _)
AddAll(h, ks) == IF Len(ks) = 0 THEN h ELSE AddAll(Add(h, Head(ks)), Tail(ks))

\* Cassandra.Snapshot: the directory listed for the files of a table
SnapshotDir(cfg, table, ts) ==
    IF cfg.Incremental THEN table \o "/backups/"
    ELSE table \o "/snapshots/" \o ts \o "/"

\* `find <dir> -maxdepth 1 -type f` prints each file with the cleaned directory
FilePaths(dir, names) == [i \in DOMAIN names |-> Clean(dir) \o "/" \o names[i]]

\* the object keys a backup with timestamp ts and parent par (a full backup has
\* par = ts) of the files names of host leaves in the bucket
BackupKeys(par, ts, host, names) ==
    LET cfg   == [DefaultConfig EXCEPT !.Incremental = (par # ts)]
        paths == FilePaths(SnapshotDir(cfg, TableDir, ts), names)
    IN  {ObjectKey(getFileKey(cfg, par, ts, host, paths[i])) : i \in DOMAIN paths}

\* the bucket before the first process of a behaviour: empty, or holding the
\* full backup an earlier process took of hostA
InitialBuckets == {{}, BackupKeys("t1", "t1", "hostA", <<"f1">>)}

Init ==
    /\ AgentIdle
    /\ PipeIdle
    /\ HistEmpty
    /\ enc = NoEnc
    /\ encKey = ""
    /\ NoProcess
    /\ store \in InitialBuckets

\* main: NewConfig, priam.New(config), case "backup"
StartBackup(incremental) ==
    /\ pc = "exit"
    /\ runs < MaxRuns
    /\ runs' = runs + 1
    /\ config' = [DefaultConfig EXCEPT !.Incremental = incremental]
    /\ requested' = incremental
    /\ hist' = NewSnapshotHistory
    /\ histNil' = TRUE
    /\ added' = <<>>
    /\ crashed' = FALSE
    /\ hosts' = <<>>
    /\ timestamp' = ""
    /\ parent' = ""
    /\ hostIdx' = 0
    /\ files' = <<>>
    /\ dirs' = <<>>
    /\ fileIdx' = 0
    /\ oplog' = <<>>
    /\ err' = ErrNil
    /\ pc' = "Backup:hosts"
    /\ rmFailed' = {}
    /\ UNCHANGED <<agentVars, pipeVars, store, codecVars, restoreVars>>

\* Backup: hosts := p.cassandra.Hosts()
BackupHosts ==
    /\ pc = "Backup:hosts"
    /\ \E hs \in HostLists :
          /\ hosts' = hs
          /\ IF Len(hs) = 0
             THEN /\ err' = ErrNoHosts
                  /\ pc' = "exit"
             ELSE /\ pc' = "Backup:history"
                  /\ UNCHANGED err
    /\ oplog' = Append(oplog, Op("status", "", "", ""))
    /\ UNCHANGED <<agentVars, pipeVars, rmFailed, histVars, codecVars, restoreVars, config, requested, timestamp, parent,
                   hostIdx, files, dirs, fileIdx, store, runs>>

\* Prium.SnapshotHistory with p.hist == nil: S3.SnapshotHistory lists the bucket
\* and adds every key
LoadHistory(next) ==
    \/ /\ err' = ErrHistory           \* ListObjectsV2 fails
       /\ pc' = "exit"
       /\ UNCHANGED histVars
    \/ LET listed == ListObjects(config) IN
       IF \E i \in DOMAIN listed : AddPanics(listed[i])
       THEN /\ crashed' = TRUE
            /\ err' = ErrPanic
            /\ pc' = "exit"
            /\ UNCHANGED <<hist, histNil, added>>
       ELSE /\ hist' = AddAll(NewSnapshotHistory, listed)
            /\ histNil' = FALSE
            /\ added' = listed
            /\ pc' = next
            /\ UNCHANGED <<crashed, err>>

\* Backup: p.SnapshotHistory()
BackupSnapshotHistory ==
    /\ pc = "Backup:history"
    /\ IF histNil
       THEN LoadHistory("Backup:timestamp")
       ELSE /\ pc' = "Backup:timestamp"
            /\ UNCHANGED <<histVars, err>>
    /\ oplog' = Append(oplog, Op("list", "", "", ""))
    /\ UNCHANGED <<agentVars, pipeVars, rmFailed, codecVars, restoreVars, config, requested, hosts, timestamp, parent,
                   hostIdx, files, dirs, fileIdx, store, runs>>

\* Backup: the new timestamp is refused when the last snapshot is greater
MonotonicCheckFails(snapshots, ts) ==
    Len(snapshots) > 0 /\ StrLess(ts, snapshots[Len(snapshots)])

\* the parent decision without its else branch
ParentDecision_KeepsIncremental(snapshots, incremental, ts) ==
    IF Len(snapshots) > 0 /\ incremental
    THEN [parent |-> snapshots[Len(snapshots)], Incremental |-> incremental]
    ELSE [parent |-> ts, Incremental |-> incremental]

\* the parent decision taking the oldest snapshot as the parent
ParentDecision_FirstSnapshot(snapshots, incremental, ts) ==
    IF Len(snapshots) > 0 /\ incremental
    THEN [parent |-> snapshots[1], Incremental |-> incremental]
    ELSE [parent |-> ts, Incremental |-> FALSE]

\* Backup: parent timestamp and p.config.Incremental
ParentDecision(snapshots, incremental, ts) ==
    IF Len(snapshots) > 0 /\ incremental
    THEN [parent |-> snapshots[Len(snapshots)], Incremental |-> incremental]
    ELSE [parent |-> ts, Incremental |-> FALSE]

\* Backup with the timestamp check placed behind the snapshot of the first host
BackupTimestamp_CheckAfterSnapshot ==
    /\ pc = "Backup:timestamp"
    /\ \E ts \in Timestamps :
          LET snapshots == List(hist)
              d == ParentDecision(snapshots, config.Incremental, ts)
          IN  /\ timestamp' = ts
              /\ parent' = d.parent
              /\ config' = [config EXCEPT !.Incremental = d.Incremental]
              /\ IF MonotonicCheckFails(snapshots, ts)
                 THEN /\ oplog' = Append(oplog,
                             Op(IF d.Incremental THEN "flush" ELSE "snapshot",
                                hosts[1], ts, ""))
                      /\ err' = ErrNonMonotonic
                      /\ pc' = "exit"
                      /\ UNCHANGED hostIdx
                 ELSE /\ hostIdx' = 1
                      /\ pc' = "Backup:snapshot"
                      /\ UNCHANGED <<err, oplog>>
    /\ UNCHANGED <<agentVars, pipeVars, rmFailed, histVars, codecVars, restoreVars, requested, hosts, files, dirs, fileIdx,
                   store, runs>>

\* Backup: NewTimestamp, the monotonicity check and the parent decision
BackupTimestamp ==
    /\ pc = "Backup:timestamp"
    /\ \E ts \in Timestamps :
          LET snapshots == List(hist) IN
          /\ timestamp' = ts
          /\ IF MonotonicCheckFails(snapshots, ts)
             THEN /\ parent' = ts
                  /\ err' = ErrNonMonotonic
                  /\ pc' = "exit"
                  /\ UNCHANGED <<config, hostIdx>>
             ELSE LET d == ParentDecision(snapshots, config.Incremental, ts) IN
                  /\ parent' = d.parent
                  /\ config' = [config EXCEPT !.Incremental = d.Incremental]
                  /\ hostIdx' = 1
                  /\ pc' = "Backup:snapshot"
                  /\ UNCHANGED err
    /\ UNCHANGED <<agentVars, pipeVars, rmFailed, histVars, codecVars, restoreVars, requested, hosts, files, dirs, fileIdx,
                   oplog, store, runs>>

\* what a successful Snapshot returned for host: a mark, one entry per
\* directory and one entry per file
Returned(host, paths, ds) ==
    <<Op("captured", host, "", "")>>
        \o [i \in DOMAIN ds |-> Op("dir", host, ds[i], "")]
        \o [i \in DOMAIN paths |-> Op("found", host, paths[i], "")]

\* Backup going on to the next host when Snapshot fails
BackupSnapshot_SkipsFailedHost ==
    /\ pc = "Backup:snapshot"
    /\ LET host == hosts[hostIdx]
           dir  == SnapshotDir(config, TableDir, timestamp)
           cmd  == Op(IF config.Incremental THEN "flush" ELSE "snapshot",
                      host, timestamp, "")
       IN  \/ /\ oplog' = Append(oplog, cmd)     \* nodetool or the listing fails
              /\ IF hostIdx < Len(hosts)
                 THEN /\ hostIdx' = hostIdx + 1
                      /\ UNCHANGED <<pc, err>>
                 ELSE /\ err' = ErrNil
                      /\ pc' = "exit"
                      /\ UNCHANGED hostIdx
              /\ UNCHANGED <<files, dirs, fileIdx>>
           \/ /\ oplog' = oplog \o <<cmd>> \o Returned(host, <<>>, <<>>)
              /\ files' = <<>>                   \* no table has the directory
              /\ dirs' = <<>>
              /\ fileIdx' = 1
              /\ pc' = "Backup:upload"
              /\ UNCHANGED <<err, hostIdx>>
           \/ \E names \in FileLists :
                 /\ oplog' = oplog \o <<cmd>>
                               \o Returned(host, FilePaths(dir, names), <<dir>>)
                 /\ files' = FilePaths(dir, names)
                 /\ dirs' = <<dir>>
                 /\ fileIdx' = 1
                 /\ pc' = "Backup:upload"
                 /\ UNCHANGED <<err, hostIdx>>
    /\ rmFailed' = {}
    /\ UNCHANGED <<agentVars, pipeVars, histVars, codecVars, restoreVars, config, requested, hosts, timestamp,
                   parent, store, runs>>

\* Backup: p.cassandra.Snapshot(host, timestamp)
BackupSnapshot ==
    /\ pc = "Backup:snapshot"
    /\ LET host == hosts[hostIdx]
           dir  == SnapshotDir(config, TableDir, timestamp)
           cmd  == Op(IF config.Incremental THEN "flush" ELSE "snapshot",
                      host, timestamp, "")
       IN  \/ /\ oplog' = Append(oplog, cmd)     \* nodetool or the listing fails
              /\ err' = ErrSnapshot(host)
              /\ pc' = "exit"
              /\ UNCHANGED hostIdx
              /\ UNCHANGED <<files, dirs, fileIdx>>
           \/ /\ oplog' = oplog \o <<cmd>> \o Returned(host, <<>>, <<>>)
              /\ files' = <<>>                   \* no table has the directory
              /\ dirs' = <<>>
              /\ fileIdx' = 1
              /\ pc' = "Backup:upload"
              /\ UNCHANGED <<err, hostIdx>>
           \/ \E names \in FileLists :
                 /\ oplog' = oplog \o <<cmd>>
                               \o Returned(host, FilePaths(dir, names), <<dir>>)
                 /\ files' = FilePaths(dir, names)
                 /\ dirs' = <<dir>>
                 /\ fileIdx' = 1
                 /\ pc' = "Backup:upload"
                 /\ UNCHANGED <<err, hostIdx>>
    /\ rmFailed' = {}
    /\ UNCHANGED <<agentVars, pipeVars, histVars, codecVars, restoreVars, config, requested, hosts, timestamp,
                   parent, store, runs>>

\* Backup going on to the cleanup of the host when an upload fails
BackupUploadFile_CleansUpAfterFailure ==
    /\ pc = "Backup:upload"
    /\ IF fileIdx > Len(files)
       THEN /\ pc' = "Backup:delete"
            /\ UNCHANGED <<fileIdx, oplog, store, err>>
       ELSE LET host == hosts[hostIdx]
                file == files[fileIdx]
                key  == getFileKey(config, parent, timestamp, host, file)
            IN  \/ /\ err' = ErrUpload(host)     \* agent.ReadFile fails
                   /\ pc' = "exit"
                   /\ UNCHANGED <<fileIdx, oplog, store>>
                \/ /\ oplog' = Append(oplog, Op("put", host, file, key))
                   /\ err' = ErrUpload(host)     \* uploader.Upload fails
                   /\ pc' = "Backup:delete"
                   /\ UNCHANGED <<fileIdx, store>>
                \/ /\ oplog' = Append(oplog, Op("put", host, file, key))
                   /\ store' = store \cup {ObjectKey(key)}
                   /\ fileIdx' = fileIdx + 1
                   /\ UNCHANGED <<pc, err>>
    /\ UNCHANGED <<agentVars, pipeVars, rmFailed, histVars, codecVars, restoreVars, config, requested, hosts, timestamp,
                   parent, hostIdx, files, dirs, runs>>

\* S3.UploadFiles: one pass of the loop over files, or its return
BackupUploadFile ==
    /\ pc = "Backup:upload"
    /\ IF fileIdx > Len(files)
       THEN /\ pc' = "Backup:delete"
            /\ UNCHANGED <<fileIdx, oplog, store, err>>
       ELSE LET host == hosts[hostIdx]
                file == files[fileIdx]
                key  == getFileKey(config, parent, timestamp, host, file)
            IN  \/ /\ err' = ErrUpload(host)     \* agent.ReadFile fails
                   /\ pc' = "exit"
                   /\ UNCHANGED <<fileIdx, oplog, store>>
                \/ /\ oplog' = Append(oplog, Op("put", host, file, key))
                   /\ err' = ErrUpload(host)     \* uploader.Upload fails
                   /\ pc' = "exit"
                   /\ UNCHANGED <<fileIdx, store>>
                \/ /\ oplog' = Append(oplog, Op("put", host, file, key))
                   /\ store' = store \cup {ObjectKey(key)}
                   /\ fileIdx' = fileIdx + 1
                   /\ UNCHANGED <<pc, err>>
    /\ UNCHANGED <<agentVars, pipeVars, rmFailed, histVars, codecVars, restoreVars, config, requested, hosts, timestamp,
                   parent, hostIdx, files, dirs, runs>>

\* deleteSnapshot stops the process at a directory name shorter than this
MinDirLen == 10

\* deleteSnapshot that removes every directory, whatever the length of its name
DeleteOps_NoLengthCheck(host, ds) == [i \in DOMAIN ds |-> Op("rm", host, ds[i], "")]

\* Cassandra.deleteSnapshot: the rm -rf commands run, up to a too short name
RECURSIVE DeleteOps(_, _)
DeleteOps(host, ds) ==
    IF Len(ds) = 0 \/ Len(Head(ds)) < MinDirLen THEN <<>>
    ELSE <<Op("rm", host, Head(ds), "")>> \o DeleteOps(host, Tail(ds))

\* deleteSnapshot: the rm -rf commands in failed returned an error
RemoveFailures(known, failed) ==
    known \cup {<<o.host, o.arg>> : o \in failed}

\* Backup: p.cassandra.deleteSnapshot(host, dirs) and the end of the host loop
BackupDelete ==
    /\ pc = "Backup:delete"
    /\ LET host == hosts[hostIdx] IN
       /\ oplog' = oplog \o DeleteOps(host, dirs)
       /\ LET ops == DeleteOps(host, dirs) IN
          \E failed \in SUBSET {ops[i] : i \in DOMAIN ops} :
             rmFailed' = RemoveFailures(rmFailed, failed)
       /\ IF \E i \in DOMAIN dirs : Len(dirs[i]) < MinDirLen
          THEN /\ err' = ErrExit
               /\ pc' = "exit"
               /\ UNCHANGED hostIdx
          ELSE IF hostIdx < Len(hosts)
          THEN /\ hostIdx' = hostIdx + 1
               /\ pc' = "Backup:snapshot"
               /\ UNCHANGED err
          ELSE /\ err' = ErrNil
               /\ pc' = "exit"
               /\ UNCHANGED hostIdx
    /\ UNCHANGED <<agentVars, pipeVars, histVars, codecVars, restoreVars, config, requested, hosts, timestamp,
                   parent, files, dirs, fileIdx, store, runs>>

Next ==
    \/ \E incremental \in BOOLEAN : StartBackup(incremental)
    \/ BackupHosts
    \/ BackupSnapshotHistory
    \/ BackupTimestamp
    \/ BackupSnapshot
    \/ BackupUploadFile
    \/ BackupDelete

Spec == Init /\ [][Next]_vars

----------------------------------------------------------------------------
(* SpecRestore: go-priam restore processes run one after another against a   *)
(* cluster and a bucket that earlier backups filled                          *)

\* values of the -snapshot flag: not given, or a timestamp
SnapshotFlags == {""} \cup Ids

\* the bucket when the first restore starts: empty; a full backup of two files
\* and an incremental on it; a chain of three backups taken of two hosts; an
\* incremental whose parent objects are gone
RestoreBuckets ==
    { {},
      BackupKeys("t1", "t1", "hostA", <<"f1", "f2">>)
          \cup BackupKeys("t1", "t2", "hostA", <<"f1">>),
      BackupKeys("t1", "t1", "hostA", <<"f1">>)
          \cup BackupKeys("t1", "t2", "hostB", <<"f1">>)
          \cup BackupKeys("t2", "t3", "hostA", <<"f2">>),
      BackupKeys("t1", "t2", "hostA", <<"f1">>) }

ErrNoRestoreHosts == "did not find valid cassandra hosts"
ErrNoBackup       == "no existing backup to restore from"
ErrInvalid(s)     == s \o " is not a valid snapshot"
ErrKeys           == "failed to get all keys"
ErrDownload       == "error downloading keys"
ErrTransfer       == "could not upload files to host"
ErrLoad           == "failed to run sstableloader"

\* strings.TrimSuffix
TrimSuffix(s, suffix) ==
    IF HasSuffix(s, suffix) THEN SubSeq(s, 1, Len(s) - Len(suffix)) ELSE s

\* path.Dir
Dir(p) == Clean(PathSplit(p)[1])

\* Restore: localTmpDir and remoteTmpDir
LocalTmpDir(cfg)  == cfg.TempDir \o "/local"
RemoteTmpDir(cfg) == cfg.TempDir \o "/remote"

\* downloadKey: fileName
LocalFile(prefix, key) == TrimSuffix(prefix \o "/" \o key, ".gz")

\* the remote directory without the parent, snapshot and host of the key: the
\* <base path>/<keyspace>/<parent>/<timestamp>/<host> segments removed
RemoteDir_Stripped(remoteTmpDir, key) ==
    LET parts == Split(key, "/")
    IN  Dir(remoteTmpDir \o "/" \o Join(SubSeq(parts, 6, Len(parts)), "/"))

\* uploadFilesToHost: remoteDir
RemoteDir(remoteTmpDir, key) == Dir(remoteTmpDir \o "/" \o key)

RestoreInit ==
    /\ AgentIdle
    /\ PipeIdle
    /\ HistEmpty
    /\ enc = NoEnc
    /\ encKey = ""
    /\ NoProcess
    /\ store \in RestoreBuckets

\* main: NewConfig, priam.New(config), case "restore"
StartRestore(flag) ==
    /\ pc = "exit"
    /\ runs < MaxRuns
    /\ runs' = runs + 1
    /\ config' = [DefaultConfig EXCEPT !.Snapshot = flag]
    /\ requested' = FALSE
    /\ hist' = NewSnapshotHistory
    /\ histNil' = TRUE
    /\ added' = <<>>
    /\ crashed' = FALSE
    /\ hosts' = <<>>
    /\ timestamp' = ""
    /\ parent' = ""
    /\ hostIdx' = 0
    /\ files' = <<>>
    /\ dirs' = <<>>
    /\ fileIdx' = 0
    /\ rsnapshot' = ""
    /\ rkeys' = <<>>
    /\ keyIdx' = 0
    /\ staged' = EmptyMap
    /\ sent' = {}
    /\ rdirs' = {}
    /\ lhosts' = <<>>
    /\ ldone' = {}
    /\ ldir' = ""
    /\ lidx' = 0
    /\ loads' = <<>>
    /\ oplog' = <<>>
    /\ err' = ErrNil
    /\ pc' = "Restore:hosts"
    /\ rmFailed' = {}
    /\ UNCHANGED <<agentVars, pipeVars, store, codecVars>>

\* Restore with the check of the hosts placed behind the listing of the bucket
RestoreHosts_ChecksAfterListing ==
    /\ pc = "Restore:hosts"
    /\ \E hs \in HostLists :
          /\ hosts' = hs
          /\ IF Len(hs) = 0
             THEN /\ err' = ErrNoRestoreHosts
                  /\ pc' = "exit"
                  /\ oplog' = oplog \o <<Op("status", "", "", ""),
                                         Op("list", "", "", "")>>
                  /\ UNCHANGED rsnapshot
             ELSE /\ rsnapshot' = config.Snapshot
                  /\ pc' = "Restore:history"
                  /\ oplog' = Append(oplog, Op("status", "", "", ""))
                  /\ UNCHANGED err
    /\ UNCHANGED <<agentVars, pipeVars, rmFailed, histVars, codecVars, config, requested, timestamp, parent,
                   hostIdx, files, dirs, fileIdx, store, runs, rkeys, keyIdx,
                   staged, sent, rdirs, lhosts, ldone, ldir, lidx, loads>>

\* Restore: hosts := p.cassandra.Hosts() and snapshot := p.config.Snapshot
RestoreHosts ==
    /\ pc = "Restore:hosts"
    /\ \E hs \in HostLists :
          /\ hosts' = hs
          /\ IF Len(hs) = 0
             THEN /\ err' = ErrNoRestoreHosts
                  /\ pc' = "exit"
                  /\ UNCHANGED rsnapshot
             ELSE /\ rsnapshot' = config.Snapshot
                  /\ pc' = "Restore:history"
                  /\ UNCHANGED err
    /\ oplog' = Append(oplog, Op("status", "", "", ""))
    /\ UNCHANGED <<agentVars, pipeVars, rmFailed, histVars, codecVars, config, requested, timestamp, parent,
                   hostIdx, files, dirs, fileIdx, store, runs, rkeys, keyIdx,
                   staged, sent, rdirs, lhosts, ldone, ldir, lidx, loads>>

\* Restore: p.SnapshotHistory()
RestoreSnapshotHistory ==
    /\ pc = "Restore:history"
    /\ IF histNil
       THEN LoadHistory("Restore:target")
       ELSE /\ pc' = "Restore:target"
            /\ UNCHANGED <<histVars, err>>
    /\ oplog' = Append(oplog, Op("list", "", "", ""))
    /\ UNCHANGED <<agentVars, pipeVars, rmFailed, codecVars, restoreVars, config, requested, hosts, timestamp,
                   parent, hostIdx, files, dirs, fileIdx, store, runs>>

\* the target taken from the history whenever the history has a snapshot
RestoreTargetOf_PrefersLatest(given, snapshots) ==
    IF Len(snapshots) > 0 THEN snapshots[Len(snapshots)]
    ELSE given

\* Restore: the snapshot restored to when the flag gave it or it is looked up
RestoreTargetOf(given, snapshots) ==
    IF given = "" /\ Len(snapshots) > 0 THEN snapshots[Len(snapshots)]
    ELSE given

\* the checks of the target with the validity check left out
TargetError_NoValidCheck(h, s) ==
    IF s = "" THEN ErrNoBackup ELSE ErrNil

\* Restore: the error the checks of the target snapshot return
TargetError(h, s) ==
    IF s = "" THEN ErrNoBackup
    ELSE IF ~Valid(h, s) THEN ErrInvalid(s)
    ELSE ErrNil

\* Restore: the target snapshot, its validity and its keys
RestoreTarget ==
    /\ pc = "Restore:target"
    /\ LET s == RestoreTargetOf(rsnapshot, List(hist))
           r == Keys(hist, s)
       IN  /\ rsnapshot' = s
           /\ IF TargetError(hist, s) # ErrNil
              THEN /\ err' = TargetError(hist, s)
                   /\ pc' = "exit"
                   /\ UNCHANGED <<rkeys, keyIdx>>
              ELSE IF r.err = Diverges
              THEN /\ pc' = "Restore:keys"          \* Keys never returns
                   /\ UNCHANGED <<err, rkeys, keyIdx>>
              ELSE IF r.err # ErrNil
              THEN /\ err' = ErrKeys
                   /\ pc' = "exit"
                   /\ UNCHANGED <<rkeys, keyIdx>>
              ELSE /\ rkeys' = r.keys
                   /\ keyIdx' = 1
                   /\ pc' = "Restore:download"
                   /\ UNCHANGED err
    /\ UNCHANGED <<agentVars, pipeVars, rmFailed, histVars, codecVars, config, requested, hosts, timestamp,
                   parent, hostIdx, files, dirs, fileIdx, oplog, store, runs,
                   staged, sent, rdirs, lhosts, ldone, ldir, lidx, loads>>

\* downloadKeys going on to the next key when a download fails
RestoreDownloadKey_SkipsFailedKey ==
    /\ pc = "Restore:download"
    /\ IF keyIdx > Len(rkeys)
       THEN /\ pc' = "Restore:transfer"
            /\ UNCHANGED <<keyIdx, staged, oplog, err>>
       ELSE LET key      == rkeys[keyIdx]
                fileName == LocalFile(LocalTmpDir(config), key)
            IN  /\ oplog' = Append(oplog, Op("get", "", fileName, key))
                /\ \/ /\ keyIdx' = keyIdx + 1
                      /\ UNCHANGED <<pc, err, staged>>
                   \/ /\ err' = ErrExit
                      /\ pc' = "exit"
                      /\ UNCHANGED <<keyIdx, staged>>
                   \/ /\ staged' = MapPut(staged, key, "")
                      /\ keyIdx' = keyIdx + 1
                      /\ UNCHANGED <<pc, err>>
                   \/ /\ staged' = MapPut(staged, key, fileName)
                      /\ keyIdx' = keyIdx + 1
                      /\ UNCHANGED <<pc, err>>
    /\ UNCHANGED <<agentVars, pipeVars, rmFailed, histVars, codecVars, config, requested, hosts, timestamp,
                   parent, hostIdx, files, dirs, fileIdx, store, runs,
                   rsnapshot, rkeys, sent, rdirs, lhosts, ldone, ldir, lidx,
                   loads>>

\* S3.downloadKeys: one pass of the loop over keys, or its return
RestoreDownloadKey ==
    /\ pc = "Restore:download"
    /\ IF keyIdx > Len(rkeys)
       THEN /\ pc' = "Restore:transfer"
            /\ UNCHANGED <<keyIdx, staged, oplog, err>>
       ELSE LET key      == rkeys[keyIdx]
                fileName == LocalFile(LocalTmpDir(config), key)
            IN  /\ oplog' = Append(oplog, Op("get", "", fileName, key))
                /\ \/ /\ err' = ErrDownload     \* GetObject, MkdirAll, Create or
                      /\ pc' = "exit"           \* the read of the body fails
                      /\ UNCHANGED <<keyIdx, staged>>
                   \/ /\ err' = ErrExit         \* the body is not gzip
                      /\ pc' = "exit"
                      /\ UNCHANGED <<keyIdx, staged>>
                   \/ /\ staged' = MapPut(staged, key, "")   \* file.Write fails:
                      /\ keyIdx' = keyIdx + 1                \* ("", Wrap(nil))
                      /\ UNCHANGED <<pc, err>>
                   \/ /\ staged' = MapPut(staged, key, fileName)
                      /\ keyIdx' = keyIdx + 1
                      /\ UNCHANGED <<pc, err>>
    /\ UNCHANGED <<agentVars, pipeVars, rmFailed, histVars, codecVars, config, requested, hosts, timestamp,
                   parent, hostIdx, files, dirs, fileIdx, store, runs,
                   rsnapshot, rkeys, sent, rdirs, lhosts, ldone, ldir, lidx,
                   loads>>

\* the files copied to the last of the hosts
TransferTarget_LastHost(hs) == hs[Len(hs)]

\* Restore: the host uploadFilesToHost is called with
TransferTarget(hs) == hs[1]

\* Prium.uploadFilesToHost: one pass of the range over files, or its return;
\* Agent.UploadFile runs mkdir -p on the host and then scp, which fails for a
\* local file named ""
RestoreTransferFile ==
    /\ pc = "Restore:transfer"
    /\ IF DOMAIN staged \ sent = {}
       THEN /\ pc' = "Restore:load"
            /\ UNCHANGED <<sent, rdirs, oplog, err>>
       ELSE \E key \in DOMAIN staged \ sent :
               LET host      == TransferTarget(hosts)
                   remoteDir == RemoteDir(RemoteTmpDir(config), key)
                   mkdir     == Op("mkdir", host, remoteDir, key)
                   scp       == Op("scp", host, remoteDir, key)
               IN  \/ /\ oplog' = Append(oplog, mkdir)
                      /\ err' = ErrTransfer
                      /\ pc' = "exit"
                      /\ UNCHANGED <<sent, rdirs>>
                   \/ /\ oplog' = oplog \o <<mkdir, scp>>
                      /\ err' = ErrTransfer
                      /\ pc' = "exit"
                      /\ UNCHANGED <<sent, rdirs>>
                   \/ /\ staged[key] # ""
                      /\ oplog' = oplog \o <<mkdir, scp>>
                      /\ sent' = sent \cup {key}
                      /\ rdirs' = rdirs \cup {remoteDir}
                      /\ UNCHANGED <<pc, err>>
    /\ UNCHANGED <<agentVars, pipeVars, rmFailed, histVars, codecVars, config, requested, hosts, timestamp,
                   parent, hostIdx, files, dirs, fileIdx, store, runs,
                   rsnapshot, rkeys, keyIdx, staged, lhosts, ldone, ldir, lidx,
                   loads>>

\* Cassandra.sstableload: hosts := c.Hosts()
RestoreLoadHosts ==
    /\ pc = "Restore:load"
    /\ \E hs \in HostLists : lhosts' = hs
    /\ ldone' = {}
    /\ ldir' = ""
    /\ lidx' = 0
    /\ oplog' = Append(oplog, Op("status", "", "", ""))
    /\ pc' = "Restore:loaddir"
    /\ UNCHANGED <<agentVars, pipeVars, rmFailed, histVars, codecVars, config, requested, hosts, timestamp,
                   parent, hostIdx, files, dirs, fileIdx, store, err, runs,
                   rsnapshot, rkeys, keyIdx, staged, sent, rdirs, loads>>

\* Cassandra.sstableload: the err declared in the pass over a directory. The
\* host loop assigns the error of agent.Run to an err of its own, declared by
\* := inside the loop, so this one keeps its zero value whatever results the
\* runs had.
LoadErr(results) == ErrNil

\* the results of the sstableloader runs for directory d, in order
ResultsFor(d) ==
    LET idx == SelectSeq([i \in DOMAIN loads |-> i], LAMBDA i : loads[i].dir = d)
    IN  [n \in DOMAIN idx |-> loads[idx[n]].ok]

\* Cassandra.sstableload: the range over dirs takes its next directory, or
\* sstableload and Restore return
RestoreLoadNextDir ==
    /\ pc = "Restore:loaddir"
    /\ ldir = ""
    /\ IF rdirs \ ldone = {}
       THEN /\ err' = ErrNil
            /\ pc' = "exit"
            /\ UNCHANGED <<ldir, lidx>>
       ELSE /\ \E d \in rdirs \ ldone : ldir' = d
            /\ lidx' = 1
            /\ UNCHANGED <<pc, err>>
    /\ UNCHANGED <<agentVars, pipeVars, rmFailed, histVars, codecVars, config, requested, hosts, timestamp,
                   parent, hostIdx, files, dirs, fileIdx, oplog, store, runs,
                   rsnapshot, rkeys, keyIdx, staged, sent, rdirs, lhosts, ldone,
                   loads>>

\* the host loop never left early
LoadBreaks_Never(ok) == FALSE

\* Cassandra.sstableload: if err == nil { break }
LoadBreaks(ok) == ok

\* Cassandra.sstableload: one pass of the loop over hosts for the directory, or
\* the check behind the loop
RestoreLoadRun ==
    /\ pc = "Restore:loaddir"
    /\ ldir # ""
    /\ IF lidx > Len(lhosts)
       THEN /\ IF LoadErr(ResultsFor(ldir)) # ErrNil
               THEN /\ err' = ErrLoad
                    /\ pc' = "exit"
                    /\ UNCHANGED <<ldone, ldir>>
               ELSE /\ ldone' = ldone \cup {ldir}
                    /\ ldir' = ""
                    /\ UNCHANGED <<pc, err>>
            /\ UNCHANGED <<lidx, loads, oplog>>
       ELSE LET target == hosts[1]
                node   == lhosts[lidx]
            IN  /\ oplog' = Append(oplog, Op("load", target, ldir, node))
                /\ \E ok \in BOOLEAN :
                      /\ loads' = Append(loads, [target |-> target, node |-> node,
                                                 dir |-> ldir, ok |-> ok])
                      /\ IF LoadBreaks(ok)
                         THEN /\ ldone' = ldone \cup {ldir}
                              /\ ldir' = ""
                              /\ UNCHANGED lidx
                         ELSE /\ lidx' = lidx + 1
                              /\ UNCHANGED <<ldone, ldir>>
                /\ UNCHANGED <<pc, err>>
    /\ UNCHANGED <<agentVars, pipeVars, rmFailed, histVars, codecVars, config, requested, hosts, timestamp,
                   parent, hostIdx, files, dirs, fileIdx, store, runs,
                   rsnapshot, rkeys, keyIdx, staged, sent, rdirs, lhosts>>

RestoreNext ==
    \/ \E flag \in SnapshotFlags : StartRestore(flag)
    \/ RestoreHosts
    \/ RestoreSnapshotHistory
    \/ RestoreTarget
    \/ RestoreDownloadKey
    \/ RestoreTransferFile
    \/ RestoreLoadHosts
    \/ RestoreLoadNextDir
    \/ RestoreLoadRun

SpecRestore == RestoreInit /\ [][RestoreNext]_vars

----------------------------------------------------------------------------
(* SpecMain: one go-priam process, from its command line to its exit        *)

\* buckets that hold an object no backup of the keyspace wrote under its
\* prefix: the marker object of the folder, a log file next to a backup, a
\* backup of the keyspace ks2 of the same base path
ForeignBuckets ==
    { {"env/ks/"},
      BackupKeys("t1", "t1", "hostA", <<"f1">>) \cup {"env/ks/tmp/upload.log"},
      BackupKeys("t1", "t1", "hostA", <<"f1">>)
          \cup {"env/ks2/t2/t2/hostA/d/ks2/cf/f1.gz"} }

\* the bucket when the process starts
MainBuckets == InitialBuckets \cup RestoreBuckets \cup ForeignBuckets

ErrConfig       == "invalid configuration"
ErrNoCommand    == "no valid command"
ErrUnrecognized == "unrecognized command"

\* main: the exit status of the process. main calls os.Exit(1) when NewConfig
\* or the command returns an error and when no command or an unknown one is
\* given, deleteSnapshot and downloadKey call os.Exit(1) themselves, the Go
\* runtime exits with 2 on a panic, and main returning gives 0.
ExitStatus(e) ==
    IF e = ErrNil THEN 0
    ELSE IF e = ErrPanic THEN 2
    ELSE 1

MainInit ==
    /\ AgentIdle
    /\ PipeIdle
    /\ HistEmpty
    /\ enc = NoEnc
    /\ encKey = ""
    /\ NoProcess
    /\ store \in MainBuckets

\* main: a command line that ends the process before a command runs
MainRefused(e) ==
    /\ pc = "exit"
    /\ runs = 0
    /\ runs' = runs + 1
    /\ err' = e
    /\ UNCHANGED <<agentVars, pipeVars, rmFailed, histVars, codecVars, restoreVars, pc, config, requested,
                   hosts, timestamp, parent, hostIdx, files, dirs, fileIdx,
                   oplog, store>>

\* main: NewConfig returns an error
MainConfigError == MainRefused(ErrConfig)

\* main: len(flag.Args()) == 0
MainNoCommand == MainRefused(ErrNoCommand)

\* the switch over the command without its default case
MainUnrecognized_FallsThrough == MainRefused(ErrNil)

\* main: default case of the switch over the command
MainUnrecognized == MainRefused(ErrUnrecognized)

\* main: case "backup"
MainBackup(incremental) == runs = 0 /\ StartBackup(incremental)

\* main: case "restore"
MainRestore(flag) == runs = 0 /\ StartRestore(flag)

\* main: NewConfig, priam.New(config), case "history"
StartHistory ==
    /\ pc = "exit"
    /\ runs < MaxRuns
    /\ runs' = runs + 1
    /\ config' = DefaultConfig
    /\ requested' = FALSE
    /\ hist' = NewSnapshotHistory
    /\ histNil' = TRUE
    /\ added' = <<>>
    /\ crashed' = FALSE
    /\ hosts' = <<>>
    /\ timestamp' = ""
    /\ parent' = ""
    /\ hostIdx' = 0
    /\ files' = <<>>
    /\ dirs' = <<>>
    /\ fileIdx' = 0
    /\ rsnapshot' = ""
    /\ rkeys' = <<>>
    /\ keyIdx' = 0
    /\ staged' = EmptyMap
    /\ sent' = {}
    /\ rdirs' = {}
    /\ lhosts' = <<>>
    /\ ldone' = {}
    /\ ldir' = ""
    /\ lidx' = 0
    /\ loads' = <<>>
    /\ oplog' = <<>>
    /\ err' = ErrNil
    /\ pc' = "History:history"
    /\ rmFailed' = {}
    /\ UNCHANGED <<agentVars, pipeVars, store, codecVars>>

\* main: case "history"
MainHistory == runs = 0 /\ StartHistory

\* History: p.SnapshotHistory() and the print of p.hist
HistorySnapshotHistory ==
    /\ pc = "History:history"
    /\ IF histNil
       THEN LoadHistory("exit")
       ELSE /\ pc' = "exit"
            /\ UNCHANGED <<histVars, err>>
    /\ oplog' = Append(oplog, Op("list", "", "", ""))
    /\ UNCHANGED <<agentVars, pipeVars, rmFailed, codecVars, restoreVars, config, requested, hosts, timestamp,
                   parent, hostIdx, files, dirs, fileIdx, store, runs>>

MainNext ==
    \/ MainConfigError
    \/ MainNoCommand
    \/ MainUnrecognized
    \/ \E incremental \in BOOLEAN : MainBackup(incremental)
    \/ \E flag \in SnapshotFlags : MainRestore(flag)
    \/ MainHistory
    \/ HistorySnapshotHistory
    \/ BackupHosts
    \/ BackupSnapshotHistory
    \/ BackupTimestamp
    \/ BackupSnapshot
    \/ BackupUploadFile
    \/ BackupDelete
    \/ RestoreHosts
    \/ RestoreSnapshotHistory
    \/ RestoreTarget
    \/ RestoreDownloadKey
    \/ RestoreTransferFile
    \/ RestoreLoadHosts
    \/ RestoreLoadNextDir
    \/ RestoreLoadRun

SpecMain == MainInit /\ [][MainNext]_vars

-----------------------------------------------------------------------------
(* SpecObject: one Prium object whose Backup, Restore and History are called *)
(* one after another by the same process                                    *)

MaxCalls == 2

\* the configurations the object is built with
ObjectConfigs == {[DefaultConfig EXCEPT !.Incremental = i] : i \in BOOLEAN}

\* priam.New(config): p.hist is nil
ObjectInit ==
    /\ AgentIdle
    /\ PipeIdle
    /\ hist = NewSnapshotHistory
    /\ histNil = TRUE
    /\ added = <<>>
    /\ crashed = FALSE
    /\ enc = NoEnc
    /\ encKey = ""
    /\ \E cfg \in ObjectConfigs : Idle(cfg)
    /\ store \in InitialBuckets

\* a call of a method of the object: its locals are new, p.hist and p.config
\* are those the earlier calls left
Call(first) ==
    /\ pc = "exit"
    /\ ~crashed
    /\ runs < MaxCalls
    /\ runs' = runs + 1
    /\ requested' = config.Incremental
    /\ hosts' = <<>>
    /\ timestamp' = ""
    /\ parent' = ""
    /\ hostIdx' = 0
    /\ files' = <<>>
    /\ dirs' = <<>>
    /\ fileIdx' = 0
    /\ rsnapshot' = ""
    /\ rkeys' = <<>>
    /\ keyIdx' = 0
    /\ staged' = EmptyMap
    /\ sent' = {}
    /\ rdirs' = {}
    /\ lhosts' = <<>>
    /\ ldone' = {}
    /\ ldir' = ""
    /\ lidx' = 0
    /\ loads' = <<>>
    /\ oplog' = <<>>
    /\ err' = ErrNil
    /\ pc' = first
    /\ rmFailed' = {}
    /\ UNCHANGED <<agentVars, pipeVars, histVars, codecVars, config, store>>

\* p.Backup()
CallBackup == Call("Backup:hosts")

\* p.Restore()
CallRestore == Call("Restore:hosts")

\* p.History()
CallHistory == Call("History:history")

ObjectNext ==
    \/ CallBackup
    \/ CallRestore
    \/ CallHistory
    \/ HistorySnapshotHistory
    \/ BackupHosts
    \/ BackupSnapshotHistory
    \/ BackupTimestamp
    \/ BackupSnapshot
    \/ BackupUploadFile
    \/ BackupDelete
    \/ RestoreHosts
    \/ RestoreSnapshotHistory
    \/ RestoreTarget
    \/ RestoreDownloadKey
    \/ RestoreTransferFile
    \/ RestoreLoadHosts
    \/ RestoreLoadNextDir
    \/ RestoreLoadRun

SpecObject == ObjectInit /\ [][ObjectNext]_vars

-----------------------------------------------------------------------------
(* SpecAgent: the operations of one Agent called one after another by one   *)
(* goroutine; SpecAgentPar: the same operations called by two goroutines    *)

MaxOps == 3

\* the operations that open an ssh session
AgentOps == {"Run", "List", "ReadFile", "UploadFile"}

ErrEmptyHost == "empty cassandra host"
ErrKey       == "error reading or parsing private key"
ErrConnect   == "error connecting to host"
ErrSession   == "new session failed"
ErrCommand   == "command failed"
ErrCopy      == "could not copy file to cassandra host"

AgentInit ==
    /\ AgentIdle
    /\ PipeIdle
    /\ HistEmpty
    /\ enc = NoEnc
    /\ encKey = ""
    /\ ProgIdle

\* pc of a goroutine inside the read and inside the write of the clients map
Reading(g) == gor[g].pc = "reading"
Writing(g) == gor[g].pc = "writing"

\* gor with goroutine g stepping to pc p and the goroutines in S marked as
\* having had their map access overlapped by a conflicting one
Step(g, p, S) ==
    [x \in Goroutines |->
        IF x = g THEN [gor[g] EXCEPT !.pc = p, !.raced = (g \in S)]
        ELSE IF x \in S THEN [gor[x] EXCEPT !.raced = TRUE]
        ELSE gor[x]]

\* the operation of goroutine g returns e
Return(g, e) == gor' = [gor EXCEPT ![g] = GoIdle(e)]

\* the clients map without a cache: no lookup finds a client
CacheHit_Never(cl, host) == FALSE

\* client: session, ok := a.clients[host]
CacheHit(cl, host) == host \in DOMAIN cl

\* Run, List, ReadFile, UploadFile: the call, down to client(host) and its
\* check of the host
AgentCall(g, op, host) ==
    /\ gor[g].pc = "idle"
    /\ ~fatal
    /\ calls < MaxOps
    /\ calls' = calls + 1
    /\ IF host = ""
       THEN Return(g, ErrEmptyHost)
       ELSE gor' = [gor EXCEPT ![g] = [GoIdle(ErrNil) EXCEPT !.pc = "client",
                                          !.op = op, !.host = host]]
    /\ UNCHANGED <<clients, dials, fatal, histVars, codecVars, progVars, pipeVars>>

\* client: the read of a.clients[host] begins
ClientLookupBegin(g) ==
    /\ gor[g].pc = "client"
    /\ ~fatal
    /\ LET W == {x \in Goroutines \ {g} : Writing(x)} IN
       gor' = Step(g, "reading", IF W = {} THEN {} ELSE W \cup {g})
    /\ UNCHANGED <<clients, dials, calls, fatal, histVars, codecVars, progVars, pipeVars>>

\* client: the read of a.clients[host] ends. A read that ran while another
\* goroutine wrote the map is a data race: the runtime stops the process, or
\* the read finds the client or does not find it
ClientLookupEnd(g) ==
    /\ Reading(g)
    /\ ~fatal
    /\ LET h    == gor[g].host
           hit  == [gor EXCEPT ![g].pc = "session", ![g].raced = FALSE,
                               ![g].hit = TRUE, ![g].conn = clients[h]]
           miss == [gor EXCEPT ![g].pc = "key", ![g].raced = FALSE]
       IN  IF gor[g].raced
           THEN \/ fatal' = TRUE /\ UNCHANGED gor
                \/ CacheHit(clients, h) /\ gor' = hit /\ UNCHANGED fatal
                \/ gor' = miss /\ UNCHANGED fatal
           ELSE /\ gor' = IF CacheHit(clients, h) THEN hit ELSE miss
                /\ UNCHANGED fatal
    /\ UNCHANGED <<clients, dials, calls, histVars, codecVars, progVars, pipeVars>>

\* client: ioutil.ReadFile(a.privateKey) and ssh.ParsePrivateKey
ClientReadKey(g) ==
    /\ gor[g].pc = "key"
    /\ ~fatal
    /\ \/ Return(g, ErrKey)
       \/ gor' = [gor EXCEPT ![g].pc = "dial"]
    /\ UNCHANGED <<clients, dials, calls, fatal, histVars, codecVars, progVars, pipeVars>>

\* client: ssh.Dial
ClientDial(g) ==
    /\ gor[g].pc = "dial"
    /\ ~fatal
    /\ LET h == gor[g].host IN
       \/ /\ Return(g, ErrConnect)
          /\ UNCHANGED dials
       \/ /\ dials' = [dials EXCEPT ![h] = @ + 1]
          /\ gor' = [gor EXCEPT ![g].pc = "store", ![g].conn = dials[h] + 1]
    /\ UNCHANGED <<clients, calls, fatal, histVars, codecVars, progVars, pipeVars>>

\* client: the write a.clients[host] = client begins
ClientStoreBegin(g) ==
    /\ gor[g].pc = "store"
    /\ ~fatal
    /\ LET A == {x \in Goroutines \ {g} : Reading(x) \/ Writing(x)} IN
       gor' = Step(g, "writing", IF A = {} THEN {} ELSE A \cup {g})
    /\ UNCHANGED <<clients, dials, calls, fatal, histVars, codecVars, progVars, pipeVars>>

\* client: the write a.clients[host] = client ends. A write that ran while
\* another goroutine used the map is a data race: the runtime stops the
\* process, or the write is in the map or is lost
ClientStoreEnd(g) ==
    /\ Writing(g)
    /\ ~fatal
    /\ LET h    == gor[g].host
           next == [gor EXCEPT ![g].pc = "session", ![g].raced = FALSE]
       IN  IF gor[g].raced
           THEN \/ fatal' = TRUE /\ UNCHANGED <<gor, clients>>
                \/ /\ clients' = MapPut(clients, h, gor[g].conn)
                   /\ gor' = next
                   /\ UNCHANGED fatal
                \/ /\ gor' = next
                   /\ UNCHANGED <<clients, fatal>>
           ELSE /\ clients' = MapPut(clients, h, gor[g].conn)
                /\ gor' = next
                /\ UNCHANGED fatal
    /\ UNCHANGED <<dials, calls, histVars, codecVars, progVars, pipeVars>>

\* session: client.NewSession()
AgentNewSession(g) ==
    /\ gor[g].pc = "session"
    /\ ~fatal
    /\ \/ Return(g, ErrSession)
       \/ gor' = [gor EXCEPT ![g].pc = "run"]
    /\ UNCHANGED <<clients, dials, calls, fatal, histVars, codecVars, progVars, pipeVars>>

\* the command of the operation on the session; UploadFile then runs scp
AgentCommand(g) ==
    /\ gor[g].pc = "run"
    /\ ~fatal
    /\ \/ Return(g, ErrNil)
       \/ Return(g, ErrCommand)
       \/ gor[g].op = "UploadFile" /\ Return(g, ErrCopy)
    /\ UNCHANGED <<clients, dials, calls, fatal, histVars, codecVars, progVars, pipeVars>>

AgentNext ==
    \/ \E op \in AgentOps, host \in AgentHosts : AgentCall(1, op, host)
    \/ ClientLookupBegin(1)
    \/ ClientLookupEnd(1)
    \/ ClientReadKey(1)
    \/ ClientDial(1)
    \/ ClientStoreBegin(1)
    \/ ClientStoreEnd(1)
    \/ AgentNewSession(1)
    \/ AgentCommand(1)

SpecAgent == AgentInit /\ [][AgentNext]_vars

AgentParNext ==
    \/ \E g \in Goroutines, op \in AgentOps, host \in AgentHosts : AgentCall(g, op, host)
    \/ \E g \in Goroutines : ClientLookupBegin(g)
    \/ \E g \in Goroutines : ClientLookupEnd(g)
    \/ \E g \in Goroutines : ClientReadKey(g)
    \/ \E g \in Goroutines : ClientDial(g)
    \/ \E g \in Goroutines : ClientStoreBegin(g)
    \/ \E g \in Goroutines : ClientStoreEnd(g)
    \/ \E g \in Goroutines : AgentNewSession(g)
    \/ \E g \in Goroutines : AgentCommand(g)

SpecAgentPar == AgentInit /\ [][AgentParNext]_vars

----------------------------------------------------------------------------
(* UploadFiles: the pipe between the compressing goroutine and the upload *)

MaxFiles  == 2    \* files of one UploadFiles call
MaxBlocks == 3    \* blocks of compressed data of one file, the trailer apart

\* the file lists of the pipe model, each file by its number of blocks
StreamLists ==
    UNION {[1..n -> 1..MaxBlocks] : n \in 1..MaxFiles}

\* the goroutine of a file whose pipe does not exist yet
NoProducer == [pc |-> "new", left |-> 0, cut |-> FALSE]

PipeInit ==
    /\ AgentIdle
    /\ HistEmpty
    /\ enc = NoEnc
    /\ encKey = ""
    /\ ProgIdle
    /\ streams \in StreamLists
    /\ upIdx = 0
    /\ producer = [i \in DOMAIN streams |-> NoProducer]
    /\ upload = "idle"
    /\ taken = [i \in DOMAIN streams |-> 0]

\* the goroutine of file i is inside writer.Write and no Read takes its
\* block: uploader.Upload of file i is not reading the pipe any more
Abandoned(i) ==
    /\ producer[i].pc = "write"
    /\ ~(upload = "reading" /\ upIdx = i)

\* UploadFiles: the next pass of the file loop; s.agent.ReadFile fails, or
\* io.Pipe() is created, the goroutine started and uploader.Upload called.
\* The stream of a file is its blocks and the gzip trailer gw.Close() writes.
PipeNextFile ==
    /\ upload = "idle"
    /\ upIdx < Len(streams)
    /\ upIdx' = upIdx + 1
    /\ \/ /\ upload' = "failed"
          /\ UNCHANGED producer
       \/ /\ upload' = "reading"
          /\ producer' = [producer EXCEPT ![upIdx + 1] =
                            [pc |-> "copy", left |-> streams[upIdx + 1] + 1,
                             cut |-> FALSE]]
    /\ UNCHANGED <<streams, taken, histVars, codecVars, progVars, agentVars>>

\* UploadFiles: return nil behind the last file
PipeReturn ==
    /\ upload = "idle"
    /\ upIdx = Len(streams)
    /\ upload' = "done"
    /\ UNCHANGED <<streams, upIdx, producer, taken, histVars, codecVars,
                   progVars, agentVars>>

\* the goroutine: io.Copy(gw, r) and gw.Close() hand the next block to
\* writer.Write, which blocks until a Read has taken it; behind the trailer
\* writer.Close()
ProducerStep(i) ==
    /\ producer[i].pc = "copy"
    /\ producer' = [producer EXCEPT ![i].pc =
                      IF producer[i].left > 0 THEN "write" ELSE "done"]
    /\ UNCHANGED <<streams, upIdx, upload, taken, histVars, codecVars,
                   progVars, agentVars>>

\* the goroutine: r fails inside io.Copy(gw, r), whose result is dropped:
\* only the trailer is left to write
ProducerSourceFails(i) ==
    /\ producer[i].pc = "copy"
    /\ producer[i].left > 1
    /\ producer' = [producer EXCEPT ![i].left = 1, ![i].cut = TRUE]
    /\ UNCHANGED <<streams, upIdx, upload, taken, histVars, codecVars,
                   progVars, agentVars>>

\* uploader.Upload: a Read of the body takes the block the goroutine is
\* writing and writer.Write returns
PipeRead ==
    /\ upload = "reading"
    /\ producer[upIdx].pc = "write"
    /\ producer' = [producer EXCEPT ![upIdx].pc = "copy",
                                    ![upIdx].left = @ - 1]
    /\ taken' = [taken EXCEPT ![upIdx] = @ + 1]
    /\ UNCHANGED <<streams, upIdx, upload, histVars, codecVars, progVars,
                   agentVars>>

\* uploader.Upload: a Read of the body returns io.EOF behind writer.Close();
\* the upload completes, or its last request fails
PipeUploadEnds ==
    /\ upload = "reading"
    /\ producer[upIdx].pc = "done"
    /\ upload' \in {"idle", "failed"}
    /\ UNCHANGED <<streams, upIdx, producer, taken, histVars, codecVars,
                   progVars, agentVars>>

\* uploader.Upload returns an error before it has read the body to its end
\* and UploadFiles returns it; nothing closes or reads reader afterwards
PipeUploadFails ==
    /\ upload = "reading"
    /\ producer[upIdx].pc # "done"
    /\ upload' = "failed"
    /\ UNCHANGED <<streams, upIdx, producer, taken, histVars, codecVars,
                   progVars, agentVars>>

PipeNext ==
    \/ PipeNextFile
    \/ PipeReturn
    \/ \E i \in 1..MaxFiles : i \in DOMAIN producer /\ ProducerStep(i)
    \/ \E i \in 1..MaxFiles : i \in DOMAIN producer /\ ProducerSourceFails(i)
    \/ PipeRead
    \/ PipeUploadEnds
    \/ PipeUploadFails

\* the scheduler of the Go runtime runs every goroutine that can run
PipeFairness ==
    \A i \in 1..MaxFiles : WF_vars(i \in DOMAIN producer /\ ProducerStep(i))

SpecPipe == PipeInit /\ [][PipeNext]_vars /\ PipeFairness

----------------------------------------------------------------------------
(* Properties of the snapshot history (SpecHist) and of the codec (SpecCodec) *)

SeqToSet(seq) == {seq[i] : i \in DOMAIN seq}

Count(x, seq) == Cardinality({i \in DOMAIN seq : seq[i] = x})

Max(S) == CHOOSE x \in S : \A y \in S : y <= x

\* the snapshot ids the added keys decoded to
ObservedIds == {KeyTimestamp(added[i]) : i \in DOMAIN added}

\* the ids reached from the ids of S by following the parent map, S included
RECURSIVE Closure(_, _)
Closure(h, S) ==
    LET T == S \cup {h.parent[x] : x \in S \cap DOMAIN h.parent}
    IN  IF T = S THEN S ELSE Closure(h, T)

\* id and its ancestors
Chain(h, id) == Closure(h, {id})

\* following the parent map from id comes back to an id already passed
Cyclic(h, id) ==
    \E a \in Chain(h, id) \cap DOMAIN h.parent : a \in Closure(h, {h.parent[a]})

SpecKey1 == "/env/ks/t1/t1/hostA/cf/snap/f1.gz"
SpecKey2 == "/env/ks/t1/t2/hostA/cf/f2.gz"

\* C1: after Add of the two stored keys /env/ks/t1/t1/hostA/cf/snap/f1.gz and
\* /env/ks/t1/t2/hostA/cf/f2.gz, in either order, List() = [t1, t2], Valid(t2),
\* not Valid(t3), Keys(t2) contains both keys, Parent(t1) = t1 and Parent(t2) = t1.
C1_SpecExample ==
    (added = <<SpecKey1, SpecKey2>> \/ added = <<SpecKey2, SpecKey1>>) =>
        /\ List(hist) = <<"t1", "t2">>
        /\ Valid(hist, "t2")
        /\ ~Valid(hist, "t3")
        /\ Keys(hist, "t2").err = ErrNil
        /\ {SpecKey1, SpecKey2} \subseteq SeqToSet(Keys(hist, "t2").keys)
        /\ Parent(hist, "t1") = "t1"
        /\ Parent(hist, "t2") = "t1"

\* C2: the key getFileKey produces for (parent, snapshot id, host, file), decoded by
\* Add into an empty index, is registered under exactly the snapshot id, with
\* Parent(snapshot id) = parent, and has a parent entry exactly when parent differs
\* from the snapshot id.
C2_CodecRoundTrip ==
    (encKey # "" /\ (added # <<>> \/ crashed)) =>
        /\ ~crashed
        /\ List(hist) = <<enc.timestamp>>
        /\ Parent(hist, enc.timestamp) = enc.parent
        /\ (enc.timestamp \in DOMAIN hist.parent <=> enc.parent # enc.timestamp)

\* C3: after any sequence of Add calls List() holds exactly the snapshot ids the
\* added keys decoded to, in strictly ascending string order (so each id once).
C3_ListAscendingDistinct ==
    LET l == List(hist) IN
    /\ SeqToSet(l) = ObservedIds
    /\ \A i \in 1..(Len(l) - 1) : StrLess(l[i], l[i + 1])

\* three ids listed that were not added in ascending order
C3_Witness ==
    /\ Len(List(hist)) >= 3
    /\ \E i, j \in DOMAIN added :
          i < j /\ StrLess(KeyTimestamp(added[j]), KeyTimestamp(added[i]))

IncrementalAdds(id) ==
    {i \in DOMAIN added :
        KeyTimestamp(added[i]) = id /\ KeyParent(added[i]) # id}

\* C5: Parent(id) is the parent recorded (last) for id when a key of id named a
\* parent other than id, and id itself otherwise; Parent(id) = id exactly when id
\* has no recorded parent.
C5_ParentOrSelf ==
    \A id \in HistIds :
        LET inc == IncrementalAdds(id) IN
        /\ inc = {} => Parent(hist, id) = id
        /\ inc # {} => /\ Parent(hist, id) = KeyParent(added[Max(inc)])
                       /\ Parent(hist, id) # id
        /\ (Parent(hist, id) = id <=> id \notin DOMAIN hist.parent)

\* an incremental snapshot and a root snapshot are both in the index
C5_Witness ==
    /\ \E id \in ObservedIds : IncrementalAdds(id) # {}
    /\ \E id \in ObservedIds : IncrementalAdds(id) = {} /\ Parent(hist, id) = id

\* C6: Valid(id) is true exactly when an added key decoded to snapshot id `id`.
C6_ValidIffObserved ==
    \A id \in HistIds : Valid(hist, id) <=> id \in ObservedIds

\* a valid id, and an id that is named as a parent but has no key
C6_Witness ==
    /\ \E id \in HistIds : Valid(hist, id)
    /\ \E id \in HistIds :
          /\ ~Valid(hist, id)
          /\ \E c \in DOMAIN hist.parent : hist.parent[c] = id

\* C7: Keys(id) fails with the unknown-snapshot error and returns no key when id or
\* an ancestor reached through the parent map has no recorded key.
C7_BrokenChainError ==
    \A id \in HistIds :
        (\E a \in Chain(hist, id) : a \notin ObservedIds) =>
            Keys(hist, id) = [keys |-> <<>>, err |-> ErrNotFound]

\* a snapshot with keys whose parent has none
C7_Witness ==
    \E id \in ObservedIds :
        /\ id \in DOMAIN hist.parent
        /\ hist.parent[id] \notin ObservedIds
        /\ Keys(hist, id).err = ErrNotFound

----------------------------------------------------------------------------
(* Properties of Backup (Spec) *)

\* the commands that capture on a host, upload to the bucket or clean up a host
HostOps == {"snapshot", "flush", "put", "rm"}

\* C8: Backup fails with the non-monotonic-timestamp error whenever the new
\* snapshot id is less than or equal to the last entry of List(); it goes on only
\* with an id strictly greater than every existing snapshot id.
C8_NonMonotonicRefused ==
    LET l == List(hist) IN
    (timestamp # "" /\ Len(l) > 0 /\ ~StrLess(l[Len(l)], timestamp)) =>
        (pc = "exit" /\ err = ErrNonMonotonic)

\* C9: when Backup has failed the timestamp check, no snapshot, flush, upload or
\* cleanup command was issued in that run.
C9_NoHostWorkOnNonMonotonic ==
    (pc = "exit" /\ err = ErrNonMonotonic) =>
        \A i \in DOMAIN oplog : oplog[i].op \notin HostOps

\* Backup has failed the timestamp check
C9_Witness ==
    /\ pc = "exit"
    /\ err = ErrNonMonotonic
    /\ Len(hosts) = 2
    /\ Len(List(hist)) > 0

\* a run asked to be incremental that found no snapshot and has its timestamp
IncrementalWithoutHistory ==
    requested /\ ~histNil /\ Len(List(hist)) = 0 /\ timestamp # ""

\* C10: a Backup asked to be incremental that finds no snapshot in the store does
\* not fail for the missing parent: it switches to a full backup, takes a
\* snapshot with the new timestamp (never a flush) on every host it reaches (all
\* of them when it succeeds) and uploads every key with the new id as parent.
C10_IncrementalWithoutHistoryIsFull ==
    IncrementalWithoutHistory =>
        /\ ~config.Incremental
        /\ parent = timestamp
        /\ err \in {ErrNil} \cup {ErrSnapshot(h) : h \in {"hostA", "hostB"}}
                            \cup {ErrUpload(h) : h \in {"hostA", "hostB"}}
        /\ \A i \in DOMAIN oplog :
              /\ oplog[i].op # "flush"
              /\ oplog[i].op = "snapshot" => oplog[i].arg = timestamp
              /\ oplog[i].op = "put" =>
                    LET parts == Split(oplog[i].key, "/")
                        stored == ObjectKey(oplog[i].key)
                    IN  /\ parts[4] = timestamp
                        /\ parts[5] = timestamp
                        /\ KeyParent(stored) = timestamp
                        /\ KeyTimestamp(stored) = timestamp
        /\ (pc = "exit" /\ err = ErrNil) =>
              \A n \in DOMAIN hosts :
                  \E i \in DOMAIN oplog : oplog[i] = Op("snapshot", hosts[n], timestamp, "")

\* such a run has ended without error after uploads from two hosts
C10_Witness ==
    /\ IncrementalWithoutHistory
    /\ pc = "exit"
    /\ err = ErrNil
    /\ Len(hosts) = 2
    /\ \E i, j \in DOMAIN oplog :
          /\ oplog[i].op = "put" /\ oplog[i].host = "hostA"
          /\ oplog[j].op = "put" /\ oplog[j].host = "hostB"

\* the run is a Backup that has passed its parent decision
ParentDecided ==
    \/ pc \in {"Backup:snapshot", "Backup:upload", "Backup:delete"}
    \/ pc = "exit" /\ hostIdx > 0

\* C11: from the parent decision of a Backup to the end of the run: when
\* -incremental was given and List() is not empty, the parent is the last entry
\* of List(), which no entry exceeds, and config.Incremental is on; otherwise
\* the parent is the new timestamp and config.Incremental is off.
C11_ParentDecision ==
    ParentDecided =>
        LET snapshots == List(hist) IN
        IF requested /\ Len(snapshots) > 0
        THEN /\ parent = snapshots[Len(snapshots)]
             /\ \A i \in DOMAIN snapshots : ~StrLess(parent, snapshots[i])
             /\ config.Incremental
        ELSE /\ parent = timestamp
             /\ ~config.Incremental

\* an incremental Backup over a history of two snapshots ran to its end
C11_Witness ==
    /\ pc = "exit"
    /\ ParentDecided
    /\ err = ErrNil
    /\ requested
    /\ Len(List(hist)) >= 2
    /\ parent # timestamp

\* position of host h in the enumeration of this run
HostPos(h) == CHOOSE n \in DOMAIN hosts : hosts[n] = h

\* the log entries of work done on cluster hosts: commands and their results
HostWork == {i \in DOMAIN oplog : oplog[i].op \in HostOps \cup {"captured", "found"}}

\* Snapshot succeeded for host h
Captured(h) == \E i \in DOMAIN oplog : oplog[i] = Op("captured", h, "", "")

\* every file Snapshot returned for host h was put, after it was found, and the
\* bucket holds its object
Uploaded(h) ==
    \A i \in DOMAIN oplog :
        oplog[i].op = "found" /\ oplog[i].host = h =>
            \E j \in DOMAIN oplog :
                /\ j > i
                /\ oplog[j].op = "put"
                /\ oplog[j].host = h
                /\ oplog[j].arg = oplog[i].arg
                /\ ObjectKey(oplog[j].key) \in store

\* C12: a Backup that ended with the snapshot or the upload of host h failing
\* names h and the stage in its error, h is the host the loop stood at, the
\* failed stage is the last work done, and no capture, upload or cleanup was
\* issued for any host enumerated after h; a Backup that ended without error
\* captured every enumerated host and uploaded every file found there.
C12_AbortOnFirstHostFailure ==
    pc = "exit" /\ ParentDecided =>
        /\ \A h \in SeqToSet(hosts) :
              err \in {ErrSnapshot(h), ErrUpload(h)} =>
                  /\ h = hosts[hostIdx]
                  /\ \A i \in HostWork : HostPos(oplog[i].host) <= hostIdx
                  /\ \A i \in HostWork : oplog[i].host = h => oplog[i].op # "rm"
                  /\ err = ErrSnapshot(h) =>
                        /\ ~Captured(h)
                        /\ oplog[Len(oplog)].op \in {"snapshot", "flush"}
                        /\ oplog[Len(oplog)].host = h
                  /\ err = ErrUpload(h) => Captured(h)
        /\ err = ErrNil =>
              \A n \in DOMAIN hosts : Captured(hosts[n]) /\ Uploaded(hosts[n])
        /\ err \in {ErrNil, ErrExit}
              \cup {ErrSnapshot(hosts[n]) : n \in DOMAIN hosts}
              \cup {ErrUpload(hosts[n]) : n \in DOMAIN hosts}

\* the upload of the first of two hosts failed after its snapshot was taken
C12_Witness ==
    /\ pc = "exit"
    /\ ParentDecided
    /\ Len(hosts) = 2
    /\ err = ErrUpload(hosts[1])
    /\ \E i \in DOMAIN oplog : oplog[i].op = "put"

----------------------------------------------------------------------------
(* Properties of Restore (SpecRestore) *)

\* what Restore does behind its checks: downloads, transfers, bulk loads
RestoreOps == {"get", "mkdir", "scp", "load"}

\* the bucket holds no object of snapshot id under the prefix of the keyspace
NoArtifact(id) ==
    \A k \in SeqToSet(ListObjects(config)) : KeyTimestamp(k) # id

\* C13: in a Restore run started with a -snapshot id of which the bucket holds
\* no object, nothing is downloaded, transferred or bulk-loaded, and once the
\* history is loaded the run ends with the invalid-snapshot error for that id.
C13_InvalidSnapshotRefused ==
    runs > 0 /\ config.Snapshot # "" /\ NoArtifact(config.Snapshot) =>
        /\ \A i \in DOMAIN oplog : oplog[i].op \notin RestoreOps
        /\ staged = EmptyMap /\ sent = {} /\ loads = <<>>
        /\ pc \in {"Restore:hosts", "Restore:history", "Restore:target", "exit"}
        /\ pc = "exit" =>
              err \in {ErrNoRestoreHosts, ErrHistory, ErrInvalid(config.Snapshot)}
        /\ pc = "exit" /\ ~histNil => err = ErrInvalid(config.Snapshot)

\* a Restore of t3 on a bucket holding t1 and t2 ended with the error
C13_Witness ==
    /\ pc = "exit"
    /\ config.Snapshot = "t3"
    /\ List(hist) = <<"t1", "t2">>
    /\ err = ErrInvalid("t3")

\* the run is a Restore that has settled its target snapshot
TargetResolved ==
    \/ pc \in {"Restore:download", "Restore:transfer", "Restore:load",
               "Restore:loaddir"}
    \/ pc = "exit" /\ runs > 0 /\ ~histNil

\* C14: once a Restore has settled its target: a -snapshot id that was given
\* is the target; without one the target is the last entry of List(), which no
\* entry exceeds; without one and with an empty List() the run has ended with
\* the no-backup error and nothing was downloaded. Every download is of a key
\* of the target.
C14_RestoreTarget ==
    TargetResolved =>
        LET snapshots == List(hist) IN
        /\ config.Snapshot # "" => rsnapshot = config.Snapshot
        /\ config.Snapshot = "" /\ Len(snapshots) > 0 =>
              /\ rsnapshot = snapshots[Len(snapshots)]
              /\ \A i \in DOMAIN snapshots : ~StrLess(rsnapshot, snapshots[i])
        /\ config.Snapshot = "" /\ Len(snapshots) = 0 =>
              /\ pc = "exit"
              /\ err = ErrNoBackup
              /\ staged = EmptyMap
              /\ \A i \in DOMAIN oplog : oplog[i].op \notin RestoreOps
        /\ \A i \in DOMAIN oplog :
              oplog[i].op = "get" =>
                  oplog[i].key \in SeqToSet(Keys(hist, rsnapshot).keys)

\* a Restore to the given t1 went through although the history ends with t2
C14_Witness ==
    /\ pc = "exit"
    /\ err = ErrNil
    /\ config.Snapshot = "t1"
    /\ List(hist) = <<"t1", "t2">>
    /\ DOMAIN staged # {}

\* the positions of the log at which op was issued for key
OpsFor(op, key) == {i \in DOMAIN oplog : oplog[i].op = op /\ oplog[i].key = key}

\* the keys Keys returns for the target of this Restore
TargetKeys == SeqToSet(Keys(hist, rsnapshot).keys)

\* the Restore of this run returned nil
RestoreSucceeded == pc = "exit" /\ TargetResolved /\ err = ErrNil

Gets == {i \in DOMAIN oplog : oplog[i].op = "get"}

\* snapshot a is an ancestor of snapshot d, and not d itself
Ancestor(a, d) == a # d /\ a \in Chain(hist, d)

\* the snapshot each downloaded key belongs to, by position of the log
GetLayer == [i \in Gets |-> KeyTimestamp(oplog[i].key)]

\* C16 as stated: of two downloads, the one of a key of an ancestor layer comes
\* before the one of a key of a descendant layer (root first, target last).
C16_AncestorsFirst ==
    \A i, j \in Gets : Ancestor(GetLayer[i], GetLayer[j]) => i < j

\* C16, amended: the downloads of a Restore go layer by layer from the target
\* back to the root: at every download, the key is a key of the target when it
\* is the first one downloaded, and no key downloaded before it is a key of an
\* ancestor layer of its layer (descendants first, the root last).
C16_DescendantsFirst ==
    [][pc = "Restore:download" /\ Len(oplog') > Len(oplog) =>
          LET layer == KeyTimestamp(oplog'[Len(oplog')].key) IN
          /\ Gets = {} => layer = rsnapshot
          /\ \A i \in Gets : ~Ancestor(GetLayer[i], layer)]_vars

\* the three layers of the chain t1 <- t2 <- t3 were downloaded for a Restore
\* to t3
C16_Witness ==
    /\ pc = "Restore:transfer"
    /\ rsnapshot = "t3"
    /\ {KeyTimestamp(oplog[i].key) : i \in Gets} = {"t1", "t2", "t3"}

\* the sstableloader runs for directory d, in order
RunsFor(d) == SelectSeq(loads, LAMBDA l : l.dir = d)

\* sstableloader was run for directory d with every host of the enumeration
\* and failed each time
LoadFailedOnAllHosts(d) ==
    /\ Len(lhosts) > 0
    /\ Len(RunsFor(d)) = Len(lhosts)
    /\ \A n \in DOMAIN RunsFor(d) : ~RunsFor(d)[n].ok

\* C17: a Restore in which sstableloader failed with every host for one of the
\* directories ends with the sstableloader error.
C17_LoadFailureFailsRestore ==
    pc = "exit" /\ TargetResolved /\ (\E d \in rdirs : LoadFailedOnAllHosts(d))
        => err = ErrLoad

\* C18: the sstableloader runs for a directory follow each other without a run
\* for another directory in between; the n-th of them names the n-th host of
\* the enumeration, and every run before it has failed, so that no run follows
\* a successful one.
C18_HostsTriedInOrder ==
    /\ \A i, j, k \in DOMAIN loads :
          i < j /\ j < k /\ loads[i].dir = loads[k].dir
              => loads[j].dir = loads[i].dir
    /\ \A d \in rdirs :
          LET rs == RunsFor(d) IN
          /\ Len(rs) <= Len(lhosts)
          /\ \A n \in DOMAIN rs :
                /\ rs[n].node = lhosts[n]
                /\ \A q \in 1..(n - 1) : ~rs[q].ok

\* for one directory the first host failed and the second passed, for another
\* the first host passed
C18_Witness ==
    /\ pc = "exit"
    /\ \E d \in rdirs : ResultsFor(d) = <<FALSE, TRUE>>
    /\ \E d \in rdirs : ResultsFor(d) = <<TRUE>>

\* the positions of the log at which a file was copied to a host
Copies == {i \in DOMAIN oplog : oplog[i].op = "scp"}

\* the directories of the host into which a file was copied
CopiedInto == {oplog[i].arg : i \in {j \in Copies : oplog[j].key \in sent}}

\* C19: every mkdir and scp of a Restore goes to the first host of the
\* enumeration and every sstableloader run is started on that host; the
\* directories sstableload is given are the directories files were copied
\* into, sstableloader is run for no other directory, and a Restore that
\* returned nil with a host to load to has run it for each of them in one pass.
C19_OneHostDistinctDirs ==
    /\ \A i \in DOMAIN oplog :
          oplog[i].op \in {"mkdir", "scp", "load"} => oplog[i].host = hosts[1]
    /\ \A n \in DOMAIN loads : loads[n].target = hosts[1]
    /\ rdirs = CopiedInto
    /\ \A n \in DOMAIN loads : loads[n].dir \in rdirs
    /\ ldone \subseteq rdirs
    /\ RestoreSucceeded =>
          /\ ldone = rdirs
          /\ Len(lhosts) > 0 => {loads[n].dir : n \in DOMAIN loads} = rdirs
          /\ \A d \in rdirs : Len(RunsFor(d)) <= Len(lhosts)

\* three files copied into two directories of the first of two hosts were
\* loaded from there
C19_Witness ==
    /\ RestoreSucceeded
    /\ Len(hosts) = 2
    /\ Cardinality(sent) = 3
    /\ Cardinality(rdirs) = 2
    /\ {loads[n].dir : n \in DOMAIN loads} = rdirs

\* C20 as stated: a file is copied into the remote temporary directory followed
\* by the directory of its key with the base path, keyspace, parent, snapshot
\* and host segments removed.
C20_RemoteDirStripped ==
    \A i \in Copies :
        LET parts == Split(oplog[i].key, "/")
        IN  oplog[i].arg = RemoteTmpDir(config) \o "/"
                \o Join(SubSeq(parts, 6, Len(parts) - 1), "/")

\* C20, amended: at every transfer of a staged file, the remote directory made
\* and copied into is the remote temporary directory followed by the directory
\* of the whole key: base path, keyspace, parent, snapshot, host and the
\* directory of the file on that host, nothing removed; the parent, the
\* snapshot and the host of the key are the three segments of the directory
\* behind the temporary directory, the base path and the keyspace, so files of
\* keys that differ in one of them go to different directories.
C20_RemoteDirKeepsKey ==
    [][pc = "Restore:transfer" =>
          \A i \in (Len(oplog) + 1)..Len(oplog') :
              LET tmp   == RemoteTmpDir(config)
                  n     == Len(Split(tmp, "/"))
                  parts == Split(oplog'[i].key, "/")
                  segs  == Split(oplog'[i].arg, "/")
              IN  /\ oplog'[i].op \in {"mkdir", "scp"}
                  /\ oplog'[i].arg
                        = tmp \o "/" \o Join(SubSeq(parts, 1, Len(parts) - 1), "/")
                  /\ SubSeq(segs, n + 3, n + 5) = SubSeq(parts, 3, 5)]_vars

\* the file of an incremental backup of hostB was copied to hostA
C20_Witness ==
    \E i \in Copies :
        /\ oplog[i].key \in sent
        /\ KeyParent(oplog[i].key) # KeyTimestamp(oplog[i].key)
        /\ Split(oplog[i].key, "/")[5] = "hostB"
        /\ oplog[i].host = "hostA"

----------------------------------------------------------------------------
(* Properties of one process (SpecMain) *)

\* the process ran Backup or Restore and the enumeration of the hosts, the
\* first thing either does, returned no host
NoHostsFound ==
    /\ pc = "exit"
    /\ runs > 0
    /\ oplog # <<>>
    /\ oplog[1].op = "status"
    /\ hosts = <<>>

\* C21: a Backup or Restore whose enumeration of the hosts returned no host
\* ends with the no-hosts error, and the enumeration is all it did: the bucket
\* was not listed and nothing was captured, uploaded, downloaded or loaded. No
\* other run ends with that error, and no Backup or Restore gets past the
\* enumeration without a host.
C21_NoHostsNoWork ==
    /\ NoHostsFound =>
          /\ err \in {ErrNoHosts, ErrNoRestoreHosts}
          /\ oplog = <<Op("status", "", "", "")>>
          /\ histNil /\ added = <<>>
          /\ staged = EmptyMap /\ sent = {} /\ loads = <<>>
    /\ err \in {ErrNoHosts, ErrNoRestoreHosts} => NoHostsFound
    /\ pc \notin {"exit", "Backup:hosts", "Restore:hosts", "History:history"}
          => Len(hosts) > 0

\* a Restore on a bucket that holds backups found no host
C21_Witness ==
    /\ NoHostsFound
    /\ err = ErrNoRestoreHosts
    /\ store # {}

----------------------------------------------------------------------------
(* Further properties of the snapshot history (SpecHist) *)

\* the keys of HistKeys that Add decodes
Decodable == {k \in HistKeys : ~AddPanics(k)}

\* C22 as stated: on every history built by Add calls, adding a key twice
\* gives the history that adding it once gives.
C22_AddIdempotent ==
    \A key \in Decodable : Add(Add(hist, key), key) = Add(hist, key)

\* C22, amended: on every history built by Add calls, adding a key a second
\* time leaves the parent map, the snapshots listed and the keys of every other
\* snapshot as the first Add left them, and appends the key once more to the
\* keys of its snapshot, so that Keys returns it once per Add.
C22_AddAppendsAgain ==
    \A key \in Decodable :
        LET once  == Add(hist, key)
            twice == Add(once, key)
            ts    == KeyTimestamp(key)
        IN  /\ twice.parent = once.parent
            /\ List(twice) = List(once)
            /\ \A id \in DOMAIN once.keys \ {ts} : twice.keys[id] = once.keys[id]
            /\ twice.keys[ts] = Append(once.keys[ts], key)
            /\ Keys(once, ts).err = ErrNil =>
                  Count(key, Keys(twice, ts).keys) = Count(key, Keys(once, ts).keys) + 1

\* a key was added twice and its snapshot holds it twice
C22_Witness ==
    \E i, j \in DOMAIN added :
        /\ i < j
        /\ added[i] = added[j]
        /\ Count(added[i], hist.keys[KeyTimestamp(added[i])]) = 2

\* key decomposes into the base path and keyspace of cfg, a parent, a
\* snapshot, a host and a file path
WellFormed(cfg, key) ==
    LET parts == Split(key, "/") IN
    /\ Len(parts) >= 6
    /\ parts[1] = cfg.AwsBasePath
    /\ parts[2] = cfg.Keyspace
    /\ \A i \in 3..Len(parts) : parts[i] # ""

\* the process has listed the bucket and built its history from the listing
HistoryLoaded == runs > 0 /\ ~histNil

\* C23: a process does not get a history out of a listing that holds a
\* malformed key: every key the history was built from is well formed (a
\* listing with a malformed key ends the process at that key).
C23_MalformedKeyFailsFast ==
    HistoryLoaded => \A i \in DOMAIN added : WellFormed(config, added[i])

\* C24: Keys returns, with a list or with an error, for every snapshot id
\* of every history built by Add calls: its loop over the parent map ends.
C24_KeysTerminates ==
    \A id \in HistIds : Keys(hist, id).err \in {ErrNil, ErrNotFound}

-----------------------------------------------------------------------------
(* Properties of one Prium object (SpecObject) *)

\* the snapshots of the bucket, as a listing taken now gives them
StoredSnapshots == List(AddAll(NewSnapshotHistory, ListObjects(config)))

\* a call has passed its p.SnapshotHistory() step
PastHistoryStep ==
    \/ pc \in {"Backup:timestamp", "Restore:target"}
    \/ pc = "exit" /\ runs > 0 /\ err = ErrNil /\ oplog = <<Op("list", "", "", "")>>

\* C25: every call of Backup, Restore or History works on a history built
\* from the bucket as it is when the call starts: behind the history step of
\* the call, List() is the list of the snapshots the bucket holds.
C25_HistoryFreshPerCall ==
    PastHistoryStep => List(hist) = StoredSnapshots

-----------------------------------------------------------------------------
(* Properties of the Agent (SpecAgent, SpecAgentPar) *)

\* goroutine g holds the client it uses for its session
HoldsClient(g) == gor[g].pc \in {"session", "run"}

\* C26: operations called one after another on one Agent establish at most
\* one connection per host, and once a host has a cached client every
\* operation for that host runs its session on that client.
C26_OneConnectionPerHost ==
    \A h \in AgentHosts :
        /\ dials[h] <= 1
        /\ CacheHit(clients, h) => dials[h] = 1
        /\ \A g \in Goroutines :
              HoldsClient(g) /\ gor[g].host = h =>
                  CacheHit(clients, h) /\ gor[g].conn = clients[h]

\* an operation runs its command on a client it found in the cache
C26_Witness ==
    /\ gor[1].pc = "run"
    /\ gor[1].hit
    /\ dials[gor[1].host] = 1
    /\ calls >= 2

\* C27: operations called by two goroutines on one Agent establish at most
\* one connection per host, and no goroutine writes the clients map while
\* another goroutine reads or writes it.
C27_CacheMutualExclusion ==
    /\ \A h \in AgentHosts : dials[h] <= 1
    /\ \A g1, g2 \in Goroutines :
          g1 # g2 /\ Writing(g1) => ~(Reading(g2) \/ Writing(g2))

-----------------------------------------------------------------------------
(* Further properties of the key encoding (SpecCodec) *)

\* the path segments of file: its directories and its name
Segments(file) == Split(file, "/")

\* file is an absolute path with n or more directories above its name
CapturedFile(file, n) ==
    Len(Segments(file)) >= n + 2 /\ Segments(file)[1] = ""

\* the directory of file without its last n segments, with its closing slash
RelDir(file, n) ==
    LET segs == Segments(file) IN
    Join(SubSeq(segs, 1, Len(segs) - 1 - n), "/") \o "/"

\* the name of file
FileName(file) == Segments(file)[Len(Segments(file))]

\* segments getFileKey removes from the directory of a file
Removed(incremental) == IF incremental THEN 1 ELSE 2

\* C28: the key of a captured file is
\* /<base path>/<keyspace>/<parent>/<snapshot>/<host><relDir><file name>.gz
\* with relDir the directory of the file without its last two segments (full)
\* or without its last segment (incremental); a file of T/snapshots/<tag>/
\* (full) and a file of T/backups/ (incremental) have relDir = T/.
C28_KeyLayout ==
    encKey # "" /\ CapturedFile(enc.file, Removed(enc.incremental)) =>
        LET rel == RelDir(enc.file, Removed(enc.incremental)) IN
        /\ encKey = "/" \o enc.base \o "/" \o enc.keyspace \o "/" \o enc.parent
                        \o "/" \o enc.timestamp \o "/" \o enc.host \o rel
                        \o FileName(enc.file) \o ".gz"
        /\ HasSuffix(encKey, ".gz")
        /\ enc.file = "/d/ks/cf/snapshots/t1/f1" /\ ~enc.incremental
              => rel = "/d/ks/cf/"
        /\ enc.file = "/d/ks/cf/backups/f2" /\ enc.incremental
              => rel = "/d/ks/cf/"

\* the key of an incremental file of T/backups/ has been computed
C28_Witness ==
    /\ encKey # ""
    /\ enc.incremental
    /\ enc.file = "/d/ks/cf/backups/f2"
    /\ CapturedFile(enc.file, 1)

-----------------------------------------------------------------------------
(* Further properties of one process (SpecMain) *)

\* the process has ended
Ended == pc = "exit" /\ runs > 0

\* the process has started the operation of its command
OperationStarted == oplog # <<>>

\* C29: a process whose operation returned an error, or that was given no
\* command or a command it does not know, exits with a non-zero status; the
\* exit status is 0 only when the operation of the command ran and returned
\* without an error.
C29_ExitStatus ==
    Ended =>
        /\ err # ErrNil => ExitStatus(err) # 0
        /\ ~OperationStarted => ExitStatus(err) # 0
        /\ ExitStatus(err) = 0 => OperationStarted /\ err = ErrNil /\ ~crashed

\* a backup has uploaded a file and its process exits with status 0
C29_Witness ==
    /\ Ended
    /\ ExitStatus(err) = 0
    /\ \E i \in DOMAIN oplog : oplog[i].op = "put"

-----------------------------------------------------------------------------
(* Further properties of Backup (Spec) *)

\* Backup: the error of a failed deleteSnapshot on host
ErrDelete(host) == "delete @ " \o host

\* C30: when the removal of a capture directory fails on a host, Backup ends
\* there and returns the error of the delete stage of that host.
C30_DeleteFailurePropagates ==
    \A f \in rmFailed : pc = "exit" /\ err = ErrDelete(f[1])

\* the positions of the log entries of command op issued for host h
OpsOf(op, h) == {i \in DOMAIN oplog : oplog[i].op = op /\ oplog[i].host = h}

\* the positions of the capture commands issued for host h
CaptureOf(h) == OpsOf("snapshot", h) \cup OpsOf("flush", h)

\* C31: for each host, Backup captures, then uploads the files captured on
\* that host, then removes the capture directories: a removal on a host comes
\* after the capture of the host and after the successful upload of every
\* file found there, and no removal is issued on a host whose capture or
\* upload failed.
C31_CaptureUploadCleanup ==
    /\ (oplog # <<>> /\ oplog[Len(oplog)].op = "rm") =>
          LET h == oplog[Len(oplog)].host IN
          /\ Captured(h)
          /\ Uploaded(h)
          /\ \A r \in OpsOf("rm", h) :
                /\ \A c \in CaptureOf(h) : c < r
                /\ \A u \in OpsOf("put", h) : u < r
                /\ \A f \in OpsOf("found", h) :
                      \E u \in OpsOf("put", h) :
                          f < u /\ u < r /\ oplog[u].arg = oplog[f].arg
          /\ \A u \in OpsOf("put", h) : \A c \in CaptureOf(h) : c < u
    /\ pc = "exit" =>
          \A n \in DOMAIN hosts :
              err \in {ErrSnapshot(hosts[n]), ErrUpload(hosts[n])} =>
                  OpsOf("rm", hosts[n]) = {}

\* a Backup of two hosts removed the capture directory of each host after the
\* upload of two files
C31_Witness ==
    /\ pc = "exit"
    /\ err = ErrNil
    /\ Len(hosts) = 2
    /\ OpsOf("rm", hosts[1]) # {}
    /\ OpsOf("rm", hosts[2]) # {}
    /\ Len(files) = 2

-----------------------------------------------------------------------------
(* Properties of the parent map (SpecHist) *)

\* C32: after any sequence of Add calls no snapshot id is recorded as its own
\* parent, a key whose parent is its own snapshot id has left no parent entry
\* behind unless another key of the snapshot names a parent, and every
\* snapshot id with a parent entry has a recorded key.
C32_ParentMapWellFormed ==
    /\ \A id \in DOMAIN hist.parent :
          /\ hist.parent[id] # id
          /\ id \in DOMAIN hist.keys
          /\ Len(hist.keys[id]) >= 1
          /\ \E i \in DOMAIN added :
                KeyTimestamp(added[i]) = id /\ KeyParent(added[i]) = hist.parent[id]
    /\ \A i \in DOMAIN added :
          KeyTimestamp(added[i]) \in DOMAIN hist.keys

\* a root key and an incremental key were added
C32_Witness ==
    /\ \E i \in DOMAIN added : KeyParent(added[i]) = KeyTimestamp(added[i])
    /\ \E i \in DOMAIN added :
          /\ KeyParent(added[i]) # KeyTimestamp(added[i])
          /\ KeyTimestamp(added[i]) \in DOMAIN hist.parent
    /\ \E id \in DOMAIN hist.keys : id \notin DOMAIN hist.parent

-----------------------------------------------------------------------------
(* Properties of the snapshot id of a Backup (Spec) *)

\* the Backup is in the capture, upload and cleanup of its hosts
InHostPhase == pc \in {"Backup:snapshot", "Backup:upload", "Backup:delete"}

\* C33: a Backup that has reached the capture and upload of its hosts has a
\* snapshot id that is not in the List() of the history it loaded.
C33_SnapshotIdIsNew ==
    InHostPhase => \A i \in DOMAIN List(hist) : List(hist)[i] # timestamp

\* a Backup has decided its parent and its mode
ModeDecided == InHostPhase \/ (pc = "exit" /\ hostIdx > 0)

\* C34: within one Backup every uploaded key carries the parent and the
\* snapshot id of the run, and the mode decisions agree: the parent is the
\* snapshot id exactly when the hosts are captured by a snapshot with the
\* timestamp and the keys are trimmed as for a full backup; the parent
\* differs from the snapshot id exactly when the hosts are flushed and the
\* keys are trimmed as for an incremental backup.
C34_ModeDecisionsAgree ==
    ModeDecided =>
        /\ (parent = timestamp) <=> ~config.Incremental
        /\ \A i \in DOMAIN oplog :
              /\ oplog[i].op = "snapshot" => parent = timestamp /\ oplog[i].arg = timestamp
              /\ oplog[i].op = "flush" => parent # timestamp
              /\ oplog[i].op = "put" =>
                    /\ KeyParent(ObjectKey(oplog[i].key)) = parent
                    /\ KeyTimestamp(ObjectKey(oplog[i].key)) = timestamp
                    /\ oplog[i].key =
                          "/" \o config.AwsBasePath \o "/" \o config.Keyspace \o "/"
                              \o parent \o "/" \o timestamp \o "/" \o oplog[i].host
                              \o RelDir(oplog[i].arg, IF parent = timestamp THEN 2 ELSE 1)
                              \o FileName(oplog[i].arg) \o ".gz"

-----------------------------------------------------------------------------
(* Properties of the listing of the bucket (SpecMain) *)

\* the first two segments of key are the base path and the keyspace of cfg
OwnKey(cfg, key) ==
    LET parts == Split(key, "/") IN
    /\ Len(parts) >= 2
    /\ parts[1] = cfg.AwsBasePath
    /\ parts[2] = cfg.Keyspace

\* C35: the history a process builds for its keyspace holds only keys whose
\* base path and keyspace segments are those of its configuration: no key of
\* another keyspace is added, and none is in a key collection of the index.
C35_OnlyOwnKeyspace ==
    HistoryLoaded =>
        /\ \A i \in DOMAIN added : OwnKey(config, added[i])
        /\ \A id \in DOMAIN hist.keys :
              \A i \in DOMAIN hist.keys[id] : OwnKey(config, hist.keys[id][i])

-----------------------------------------------------------------------------
(* Further properties of Restore (SpecRestore) *)

\* a sstableloader run for directory d succeeded
Loaded(d) == \E i \in DOMAIN loads : loads[i].dir = d /\ loads[i].ok

\* C36: a Restore that returned nil has run sstableloader with success for
\* every remote directory it copied files into; with no host enumerated for
\* the bulk load it does not return nil.
C36_SuccessMeansLoaded ==
    RestoreSucceeded =>
        /\ \A d \in rdirs : Loaded(d)
        /\ rdirs # {} => Len(lhosts) > 0

\* C37: the map of staged files holds a key only with the local file its
\* object was written to; a Restore in which a download did not write its
\* file copies nothing to a cluster host and ends with an error.
C37_StagedOnlyWhenWritten ==
    /\ \A k \in DOMAIN staged : staged[k] = LocalFile(LocalTmpDir(config), k)
    /\ (\E k \in DOMAIN staged : staged[k] = "") =>
          /\ \A i \in DOMAIN oplog : oplog[i].op \notin {"mkdir", "scp"}
          /\ pc = "exit" /\ err = ErrDownload

----------------------------------------------------------------------------
(* Properties of the pipe of UploadFiles (SpecPipe) *)

\* the goroutine of file i has ended, its end of the pipe closed
Terminated(i) == producer[i].pc = "done"

\* C38: the compressing goroutine of every file ends and closes its end of
\* the pipe, also when the upload fails or stops reading: no goroutine is
\* left inside a write to the pipe that nothing will read.
C38_ProducerNotAbandoned ==
    \A i \in DOMAIN producer : ~Abandoned(i)

\* the same of the whole run: every goroutine started ends
EveryProducerTerminates ==
    \A i \in 1..MaxFiles :
        (i \in DOMAIN producer /\ producer[i].pc = "copy")
            ~> (i \in DOMAIN producer /\ Terminated(i))

\* a goroutine left inside writer.Write stays there
AbandonedForever ==
    [][\A i \in DOMAIN producer : Abandoned(i) => Abandoned(i)']_vars

\* directory lists handed to deleteSnapshot, with names of 2, 9, 10 and 22
\* characters
DirLists ==
    LET D == {"/d", "t/backups", "t/backups/", "/d/ks/cf/snapshots/t2/"}
    IN  {<<>>} \cup {<<d>> : d \in D} \cup {<<d, e>> : d \in D, e \in D}

\* deleteSnapshot sends rm -rf for the directories of the list in order, each
\* of 10 characters or more, and none for a shorter name or behind it
DeleteStopsAtShortName ==
    \A ds \in DirLists :
        LET ops == DeleteOps("hostA", ds) IN
        /\ Len(ops) <= Len(ds)
        /\ \A i \in DOMAIN ops :
              ops[i] = Op("rm", "hostA", ds[i], "") /\ Len(ds[i]) >= MinDirLen
        /\ Len(ops) < Len(ds) => Len(ds[Len(ops) + 1]) < MinDirLen

\* C39: the cleanup sends a recursive delete only for a directory that the
\* capture of the same host returned earlier in the same run, and never for a
\* name shorter than 10 characters: deleteSnapshot stops at such a name before
\* a delete is sent for it.
C39_DeleteOnlyCaptured ==
    /\ DeleteStopsAtShortName
    /\ \A r \in DOMAIN oplog :
          oplog[r].op = "rm" =>
              /\ Len(oplog[r].arg) >= MinDirLen
              /\ \E d \in 1..(r - 1) :
                    oplog[d] = Op("dir", oplog[r].host, oplog[r].arg, "")
    /\ (pc = "exit" /\ err = ErrExit) =>
          /\ \E i \in DOMAIN dirs : Len(dirs[i]) < MinDirLen
          /\ \A r \in DOMAIN oplog :
                oplog[r].op = "rm" => Len(oplog[r].arg) >= MinDirLen

\* an incremental Backup removed the backups directories of two hosts
C39_Witness ==
    /\ pc = "exit"
    /\ err = ErrNil
    /\ config.Incremental
    /\ Len(hosts) = 2
    /\ \A n \in DOMAIN hosts :
          \E r \in OpsOf("rm", hosts[n]) :
              oplog[r].arg = SnapshotDir(config, TableDir, timestamp)

=============================================================================
